---- MODULE Spec2Model ----
(***************************************************************************)
(* The cancellation tree of package context (src/src/syscall/env_unix.go,  *)
(* lines 159-795): emptyCtx, cancelCtx, timerCtx and valueCtx scopes,      *)
(* WithCancel / WithDeadline / WithTimeout / WithValue, propagateCancel,   *)
(* the cancel methods and the timer callback, run by concurrent tasks.     *)
(*                                                                         *)
(* Every task owns a call stack of frames.  One action is one atomic step  *)
(* of the code: a critical section up to the next call that can block      *)
(* (the lock it takes is a right mover, the lock it releases a left        *)
(* mover), one channel poll, one clock read.  Code that touches nothing    *)
(* shared (allocating the scope, calling, returning) and loads of a done   *)
(* value that is already stored (it is written once) are folded into the   *)
(* step next to them.                                                      *)
(***************************************************************************)
EXTENDS Integers, Sequences, FiniteSets, TLC

\* ------------------------------------------------------------- bounds
\* scopes that can be allocated (scope 0 is Background): in the runs with
\* clock, timers and foreign parents, and in the runs that build chains
MaxNodes == 2
ChainNodes == 3
\* caller tasks running operations concurrently
NumTasks == 2
\* the clock runs over 0..MaxTime
MaxTime == 1
\* invocations of one CancelFunc
MaxCalls == 2
\* timeouts handed to WithTimeout are 0..MaxDur
MaxDur == 1
\* user keys and values of value scopes
MaxKey == 1
MaxVal == 1
\* CancelFunc calls per scope in the runs checked for termination
MaxFairCalls == 1
\* the clock in the runs with deadlines that pass before their timer runs
PastTime == 2
\* calls that misuse the package, in the runs that have them
MaxMisuse == 3
\* user keys and values in the runs that look values up
MaxLookupKey == 2
MaxLookupVal == 2

\* ------------------------------------------------------------- values
Derived == 1..ChainNodes
\* background = new(emptyCtx); todo = new(emptyCtx)
background == 0
todo == ChainNodes + 1
Roots == {background, todo}
\* Background and what is derived; all scopes
Scopes == {background} \cup Derived
Nodes == Scopes \cup {todo}
\* the nil Context / nil *cancelCtx
NoCtx == -1
Times == 0..MaxTime
\* the zero deadline (ok == false)
NoTime == -1
Keys == 1..MaxKey
Vals == 1..MaxVal
\* &cancelCtxKey, the private key a cancelCtx answers with itself
cancelCtxKey == 0
NoKey == -1
\* a key of a type that is not comparable (a slice, a map, a func)
sliceKey == -2
NoVal == -1

\* channels: nil, the shared closed channel, and channels made by make()
NoChan == -1
closedchan == 0

\* errors
NoErr == "nil"
Canceled == "context canceled"
DeadlineExceeded == "context deadline exceeded"

\* tasks: callers, one timer callback per timed scope, one watcher
\* goroutine per scope derived from a foreign parent
Procs == {<<"proc", i>> : i \in 1..NumTasks}
TimerTask(c) == <<"timer", c>>
WatchTask(c) == <<"watch", c>>
Tasks == Procs \cup {TimerTask(c) : c \in Derived} \cup {WatchTask(c) : c \in Derived}
Free == <<"free", 0>>

VARIABLES
    nctx,        \* scopes allocated so far: 1..nctx exist
    kind,        \* "none" | "empty" | "cancel" | "timer" | "value" | "foreign"
    parent,      \* the embedded Context
    deadline,    \* timerCtx.deadline
    key, val,    \* valueCtx.key, valueCtx.val
    done,        \* cancelCtx.done: NoChan, closedchan or a made channel
                 \* (of a foreign scope: the channel its Done() returns)
    nchan,       \* channels made so far
    closed,      \* the closed channels
    err,         \* cancelCtx.err (of a foreign scope: what its Err() returns)
    children,    \* cancelCtx.children (nil and empty are both {})
    mu,          \* cancelCtx.mu: Free or the task holding it
    timer,       \* timerCtx.timer # nil
    tstate,      \* the runtime timer: "none" | "armed" | "fired" | "stopped"
    fireAt,      \* when the runtime timer fires
    now,         \* the clock
    stack,       \* the call stack of every task
    returned,    \* the derive call of the scope has returned
    cancelRfp,   \* removeFromParent of the CancelFunc returned with the scope
    panics,      \* the panics raised so far
    \* history of the run, read by the properties only
    ncalls,      \* CancelFunc invocations started
    cancelReturned, \* a CancelFunc invocation has returned
    regIn,       \* the scope in whose children set the scope was put
    cause,       \* what made the first cancel: why and from which scope
    nSetErr,     \* assignments to err
    nClose,      \* close() executed on the scope's channel, or closedchan stored
    nFanout,     \* runs of the loop over the children
    asked,       \* the deadline WithDeadline was called with
    pastAtCall,  \* that deadline was not later than the clock at the call
    got,         \* the last ctx.Value(key) call of a caller: scope, key, result
    late,        \* per caller: its <-ctx.Done() began on a scope already terminal
    nmisuse,     \* calls made so far with a nil parent, a nil or non-comparable key
    closedAtCall \* the parent's Done channel was closed when the scope was derived

treeVars == <<nctx, kind, parent, deadline, key, val, closedAtCall>>
chanVars == <<done, nchan, closed>>
timerVars == <<timer, tstate, fireAt>>
callVars == <<stack, returned, cancelRfp, cancelReturned>>
inputHist == <<asked, pastAtCall, got, late, nmisuse>>
histVars == <<regIn, cause, nSetErr, nClose, nFanout, inputHist>>
vars == <<nctx, kind, parent, deadline, key, val, done, nchan, closed, err,
          children, mu, timer, tstate, fireAt, now, stack, returned,
          cancelRfp, panics, ncalls, cancelReturned, regIn, cause, nSetErr,
          nClose, nFanout, asked, pastAtCall, got, late, nmisuse,
          closedAtCall>>

\* ------------------------------------------------------------- frames
NoCause == [why |-> "none", from |-> NoCtx]
OwnCancel(c) == [why |-> "cancel", from |-> c]
OwnDeadline(c) == [why |-> "deadline", from |-> c]
Propagated(p) == [why |-> "propagated", from |-> p]

\* A frame: the function, the place in it, and its locals.
\*   c: the receiver (or the child), p: the parent, q: the *cancelCtx that
\*   parentCancelCtx found, rfp: removeFromParent, e: the error, org: who
\*   called cancel, ret: the result of a call, d: a deadline or a duration.
Frame(fn, pc, c) ==
    [fn |-> fn, pc |-> pc, c |-> c, p |-> NoCtx, q |-> NoCtx, rfp |-> FALSE,
     e |-> NoErr, org |-> NoCause, ret |-> NoChan, d |-> NoTime]

Top(stk) == stk[Len(stk)]
Pop(stk) == SubSeq(stk, 1, Len(stk) - 1)
SetTop(stk, f) == [stk EXCEPT ![Len(stk)] = f]
Idle(t) == stack[t] = <<>>
At(t, fn, pc) ==
    /\ stack[t] # <<>>
    /\ Top(stack[t]).fn = fn
    /\ Top(stack[t]).pc = pc

\* The frames a return unwinds at once: the maximal suffix of frames that
\* have nothing left to do but return.
RECURSIVE Unwind(_)
Unwind(stk) ==
    IF stk # <<>> /\ Top(stk).pc = "ret" THEN Unwind(Pop(stk)) ELSE stk

Derives == {"WithCancel", "WithDeadline"}

\* The step of task t ends with call stack stk: a returning derive call
\* hands out the scope and its CancelFunc, a returning CancelFunc is
\* recorded.
FinishOn(base, t, stk) ==
    LET rest == Unwind(stk)
        gone == {stk[i] : i \in (Len(rest) + 1)..Len(stk)}
    IN
    /\ stack' = [base EXCEPT ![t] = rest]
    /\ IF \E f \in gone : f.fn \in Derives
       THEN LET f == CHOOSE f \in gone : f.fn \in Derives IN
            /\ returned' = [returned EXCEPT ![f.c] = TRUE]
            /\ cancelRfp' = [cancelRfp EXCEPT ![f.c] = f.rfp]
       ELSE UNCHANGED <<returned, cancelRfp>>
    /\ IF \E f \in gone : f.fn = "CancelFunc"
       THEN LET f == CHOOSE f \in gone : f.fn = "CancelFunc" IN
            cancelReturned' = [cancelReturned EXCEPT ![f.c] = TRUE]
       ELSE UNCHANGED cancelReturned

Finish(t, stk) == FinishOn(stack, t, stk)

\* The top frame, changed to f, returns.
ReturnAs(t, f) == Finish(t, SetTop(stack[t], [f EXCEPT !.pc = "ret"]))
Return(t) == ReturnAs(t, Top(stack[t]))
\* The top frame returns v into the ret of its caller's frame.
ReturnVal(t, v) ==
    LET stk == Pop(stack[t]) IN
    IF stk = <<>> THEN Finish(t, stk)
    ELSE Finish(t, SetTop(stk, [Top(stk) EXCEPT !.ret = v]))
\* The top frame becomes f and calls: the callees' frames go on top, the
\* last of them runs first.
Call(t, f, frames) == Finish(t, SetTop(stack[t], f) \o frames)
\* The top frame becomes f.
Goto(t, f) == Finish(t, SetTop(stack[t], f))
\* A panic ends the task where it stands.
Panic(t, msg) ==
    /\ panics' = panics \cup {msg}
    /\ Finish(t, <<>>)

\* ------------------------------------------------- reading a scope
\* valueCtx embeds its parent Context: Done and Err are the parent's.
RECURSIVE Owner(_)
Owner(n) == IF kind[n] = "value" THEN Owner(parent[n]) ELSE n

\* Deadline(): timerCtx answers its own, emptyCtx none, the others embed.
RECURSIVE Deadline(_)
Deadline(n) ==
    CASE kind[n] = "timer" -> deadline[n]
      [] kind[n] \in {"value", "cancel", "foreign"} -> Deadline(parent[n])
      [] OTHER -> NoTime

\* (variant: the parent's deadline is not looked at)
NeverSooner(p, d) == FALSE
\* (variant: a parent's deadline equal to d counts as sooner)
SoonerOrEqual(p, d) == Deadline(p) # NoTime /\ Deadline(p) <= d

\* cur, ok := parent.Deadline(); ok && cur.Before(d)
ParentIsSooner(p, d) == Deadline(p) # NoTime /\ Deadline(p) < d

\* nil, as value() and Value() return it
NotFound == [c |-> NoCtx, v |-> NoVal]

\* (variant: a cancelCtx or timerCtx answers nil for every other key)
RECURSIVE valueStopsAtCancel(_, _)
valueStopsAtCancel(n, k) ==
    CASE kind[n] = "value" ->
            IF k = key[n] THEN [c |-> NoCtx, v |-> val[n]]
            ELSE valueStopsAtCancel(parent[n], k)
      [] kind[n] \in {"cancel", "timer"} ->
            IF k = cancelCtxKey THEN [c |-> n, v |-> NoVal]
            ELSE NotFound
      [] kind[n] = "foreign" -> valueStopsAtCancel(parent[n], k)
      [] OTHER -> NotFound

\* value(c, key): the walk up the chain; [c, v] is the *cancelCtx or the val.
RECURSIVE value(_, _)
value(n, k) ==
    CASE kind[n] = "value" ->
            IF k = key[n] THEN [c |-> NoCtx, v |-> val[n]]
            ELSE value(parent[n], k)
      [] kind[n] \in {"cancel", "timer"} ->
            IF k = cancelCtxKey THEN [c |-> n, v |-> NoVal]
            ELSE value(parent[n], k)
      [] kind[n] = "foreign" -> value(parent[n], k)
      [] OTHER -> NotFound

\* the Value methods: valueCtx.Value, cancelCtx.Value (timerCtx embeds it),
\* emptyCtx.Value; a foreign Context hands the key to the one it embeds
Value(n, k) ==
    CASE kind[n] = "value" ->
            IF key[n] = k THEN [c |-> NoCtx, v |-> val[n]]
            ELSE value(parent[n], k)
      [] kind[n] \in {"cancel", "timer"} ->
            IF k = cancelCtxKey THEN [c |-> n, v |-> NoVal]
            ELSE value(parent[n], k)
      [] kind[n] = "foreign" -> value(parent[n], k)
      [] OTHER -> NotFound

\* Done() needs no lock: emptyCtx returns nil, a stored channel is returned.
\* (variant: an emptyCtx is treated like a scope without a channel yet)
DoneFastStored(n) == done[Owner(n)] # NoChan

DoneFast(n) == kind[Owner(n)] = "empty" \/ done[Owner(n)] # NoChan
DoneNow(n) == IF kind[Owner(n)] = "empty" THEN NoChan ELSE done[Owner(n)]
\* (variant: a value scope makes a channel of its own)
OwnDoneFrame(n) == Frame("Done", "slow", n)

\* the locked part of Done() runs on the scope that owns the channel
DoneFrame(n) == Frame("Done", "slow", Owner(n))

\* the channel poll: select { case <-done: ... default: }
\* (variant: the poll never finds the channel closed)
NeverClosed(d) == FALSE

IsClosed(d) == d \in closed

\* d == nil under the lock in Done()
\* (variant: the locked part of Done() makes a channel on every call)
AlwaysMake(c) == TRUE

MustMake(c) == done[c] = NoChan

\* (variant: the *cancelCtx found by Value is taken whatever its channel)
parentCancelCtxAnyDone(par, dn) ==
    IF dn = closedchan \/ dn = NoChan THEN NoCtx
    ELSE value(par, cancelCtxKey).c

\* parentCancelCtx, given what parent.Done() returned
parentCancelCtx(par, dn) ==
    IF dn = closedchan \/ dn = NoChan THEN NoCtx
    ELSE LET p == value(par, cancelCtxKey).c IN
         IF p = NoCtx THEN NoCtx
         ELSE IF done[p] # dn THEN NoCtx
         ELSE p

\* child.cancel(rfp, e): the frame of cancelCtx.cancel, or of
\* timerCtx.cancel, which runs the same code and then stops its timer.
CancelCall(c, rfp, e, org) ==
    [Frame(IF kind[c] = "timer" THEN "tcancel" ELSE "cancel", "lock", c)
        EXCEPT !.rfp = rfp, !.e = e, !.org = org]

\* the scopes a caller holds
Avail == {n \in Nodes : kind[n] = "empty" \/ returned[n]}

\* go func() { select { case <-parent.Done(): ...; case <-child.Done(): } }()
\* the goroutine first evaluates the two channels
WatchFrame(p, c) == [Frame("watch", "cdone", c) EXCEPT !.p = p]

\* ------------------------------------------------------------- Init
Init ==
    /\ nctx = 0
    /\ kind = [n \in Nodes |-> IF n \in Roots THEN "empty" ELSE "none"]
    /\ parent = [n \in Nodes |-> NoCtx]
    /\ deadline = [n \in Nodes |-> NoTime]
    /\ key = [n \in Nodes |-> NoKey]
    /\ val = [n \in Nodes |-> NoVal]
    /\ done = [n \in Nodes |-> NoChan]
    /\ nchan = 0
    /\ closed = {closedchan}
    /\ err = [n \in Nodes |-> NoErr]
    /\ children = [n \in Nodes |-> {}]
    /\ mu = [n \in Nodes |-> Free]
    /\ timer = [n \in Nodes |-> FALSE]
    /\ tstate = [n \in Nodes |-> "none"]
    /\ fireAt = [n \in Nodes |-> NoTime]
    /\ now = 0
    /\ stack = [t \in Tasks |-> <<>>]
    /\ returned = [n \in Nodes |-> FALSE]
    /\ cancelRfp = [n \in Nodes |-> FALSE]
    /\ panics = {}
    /\ ncalls = [n \in Nodes |-> 0]
    /\ cancelReturned = [n \in Nodes |-> FALSE]
    /\ regIn = [n \in Nodes |-> NoCtx]
    /\ cause = [n \in Nodes |-> NoCause]
    /\ nSetErr = [n \in Nodes |-> 0]
    /\ nClose = [n \in Nodes |-> 0]
    /\ nFanout = [n \in Nodes |-> 0]
    /\ asked = [n \in Nodes |-> NoTime]
    /\ pastAtCall = [n \in Nodes |-> FALSE]
    /\ got = [c |-> NoCtx, k |-> NoKey, r |-> NotFound]
    /\ late = [t \in Procs |-> FALSE]
    /\ nmisuse = 0
    /\ closedAtCall = [n \in Nodes |-> FALSE]

\* ------------------------------------------- operations a caller starts
NewScope(c, k, p, d, ky, v) ==
    /\ nctx' = c
    /\ kind' = [kind EXCEPT ![c] = k]
    /\ parent' = [parent EXCEPT ![c] = p]
    /\ deadline' = [deadline EXCEPT ![c] = d]
    /\ key' = [key EXCEPT ![c] = ky]
    /\ val' = [val EXCEPT ![c] = v]
    /\ closedAtCall' = [closedAtCall EXCEPT ![c] = (DoneNow(p) \in closed)]

\* (variant: propagateCancel goes on when parent.Done() is nil)
PropagateNilDone(p, c) ==
    LET f == [Frame("propagateCancel", "select", c) EXCEPT !.p = p] IN
    IF DoneFast(p)
    THEN << [f EXCEPT !.ret = DoneNow(p)] >>
    ELSE << f, DoneFrame(p) >>

\* propagateCancel(p, c) after done := parent.Done(): it has returned (done
\* is nil), polls done next, or is still in the locked part of Done().
PropagateStart(p, c) ==
    LET f == [Frame("propagateCancel", "select", c) EXCEPT !.p = p] IN
    IF DoneFast(p)
    THEN IF DoneNow(p) = NoChan
         THEN << >>
         ELSE << [f EXCEPT !.ret = DoneNow(p)] >>
    ELSE << f, DoneFrame(p) >>

\* c := newCancelCtx(parent); propagateCancel(parent, &c), up to the first
\* step of propagateCancel.
DeriveCancel(t, p, lim) ==
    /\ Idle(t)
    /\ p \in Avail
    /\ nctx < lim
    /\ NewScope(nctx + 1, "cancel", p, NoTime, NoKey, NoVal)
    /\ Finish(t, << [Frame("WithCancel", "ret", nctx + 1) EXCEPT !.rfp = TRUE] >>
                 \o PropagateStart(p, nctx + 1))
    /\ UNCHANGED <<chanVars, err, children, mu, timerVars, now, panics,
                   ncalls, regIn, cause, nSetErr, nClose, nFanout>>

\* the checks at the head of WithCancel, WithDeadline and WithValue
NilParent(p) == p = NoCtx
\* (variant: a nil key is let through)
NeverNilKey(k) == FALSE

NilKey(k) == k = NoKey
Comparable(k) == k # sliceKey

\* the call counts as a misuse when bad; at most MaxMisuse of them are made
Tries(bad) ==
    /\ bad => nmisuse < MaxMisuse
    /\ nmisuse' = IF bad THEN nmisuse + 1 ELSE nmisuse

\* the call panics before anything is built
Refused(t, msg) ==
    /\ Panic(t, msg)
    /\ UNCHANGED <<treeVars, chanVars, err, children, mu, timerVars, now,
                   ncalls, regIn, cause, nSetErr, nClose, nFanout, asked,
                   pastAtCall, got, late>>

WithCancel(t, p, lim) ==
    /\ Idle(t)
    /\ Tries(p = NoCtx)
    /\ IF NilParent(p)
       THEN Refused(t, "cannot create context from nil parent")
       ELSE /\ DeriveCancel(t, p, lim)
            /\ UNCHANGED <<asked, pastAtCall, got, late>>

\* the call WithDeadline(parent, d) that makes scope c, as the properties
\* see it
Asks(c, d) ==
    /\ asked' = [asked EXCEPT ![c] = d]
    /\ pastAtCall' = [pastAtCall EXCEPT ![c] = (d <= now)]
    /\ UNCHANGED <<got, late>>

\* WithDeadline, up to the first step of propagateCancel; a parent whose
\* deadline is sooner makes it WithCancel(parent).
WithDeadline(t, p, d, lim) ==
    /\ Idle(t)
    /\ Tries(p = NoCtx)
    /\ IF NilParent(p)
       THEN Refused(t, "cannot create context from nil parent")
       ELSE
       IF ParentIsSooner(p, d)
       THEN /\ DeriveCancel(t, p, lim)
            /\ Asks(nctx + 1, d)
       ELSE
       /\ Idle(t)
       /\ p \in Avail
       /\ nctx < lim
       /\ NewScope(nctx + 1, "timer", p, d, NoKey, NoVal)
       /\ Asks(nctx + 1, d)
       /\ Finish(t, << [Frame("WithDeadline", "until", nctx + 1)
                           EXCEPT !.rfp = TRUE, !.d = d] >>
                    \o PropagateStart(p, nctx + 1))
       /\ UNCHANGED <<chanVars, err, children, mu, timerVars, now, panics,
                      ncalls, regIn, cause, nSetErr, nClose, nFanout>>

\* WithTimeout reads the clock and is WithDeadline.
WithTimeout(t, p, timeout, lim) == WithDeadline(t, p, now + timeout, lim)

\* WithValue: after the three checks the scope is built and returned.
WithValue(t, p, k, v, lim) ==
    /\ Idle(t)
    /\ Tries(p = NoCtx \/ k = NoKey \/ k = sliceKey)
    /\ IF NilParent(p)
       THEN Refused(t, "cannot create context from nil parent")
       ELSE IF NilKey(k)
       THEN Refused(t, "nil key")
       ELSE IF ~Comparable(k)
       THEN Refused(t, "key is not comparable")
       ELSE
       /\ p \in Avail
       /\ nctx < lim
       /\ NewScope(nctx + 1, "value", p, NoTime, k, v)
       /\ returned' = [returned EXCEPT ![nctx + 1] = TRUE]
       /\ UNCHANGED <<chanVars, err, children, mu, timerVars, now, stack,
                      cancelRfp, cancelReturned, panics, ncalls, regIn, cause,
                      nSetErr, nClose, nFanout, asked, pastAtCall, got, late>>

\* The CancelFunc returned with scope c is invoked: c.cancel(true, Canceled),
\* or c.cancel(false, Canceled) when the deadline had passed at construction.
CancelFunc(t, c) ==
    /\ Idle(t)
    /\ returned[c]
    /\ kind[c] \in {"cancel", "timer"}
    /\ ncalls[c] < MaxCalls
    /\ ncalls' = [ncalls EXCEPT ![c] = @ + 1]
    /\ Finish(t, << Frame("CancelFunc", "ret", c),
                    CancelCall(c, cancelRfp[c], Canceled, OwnCancel(c)) >>)
    /\ UNCHANGED <<treeVars, chanVars, err, children, mu, timerVars, now,
                   panics, histVars>>

\* ctx.Done() by a caller, when no channel is stored yet (otherwise the
\* call is a load that changes nothing).
DoneCall(t, n) ==
    /\ Idle(t)
    /\ n \in Avail
    /\ ~DoneFast(n)
    /\ Finish(t, << DoneFrame(n) >>)
    /\ UNCHANGED <<treeVars, chanVars, err, children, mu, timerVars, now,
                   panics, ncalls, histVars>>

\* ctx.Value(k) by a caller
Lookup(t, n, k) ==
    /\ Idle(t)
    /\ n \in Avail
    /\ got' = [c |-> n, k |-> k, r |-> Value(n, k)]
    /\ UNCHANGED <<treeVars, chanVars, err, children, mu, timerVars, now,
                   callVars, panics, ncalls, regIn, cause, nSetErr, nClose,
                   nFanout, asked, pastAtCall, late, nmisuse>>

\* ctx.Err() by a caller on a scope of the package: c.mu is taken, c.err
\* read, c.mu released
ErrCall(t, n) ==
    /\ Idle(t)
    /\ n \in Avail
    /\ kind[Owner(n)] \in {"cancel", "timer"}
    /\ Finish(t, << Frame("Err", "lock", Owner(n)) >>)
    /\ UNCHANGED <<treeVars, chanVars, err, children, mu, timerVars, now,
                   panics, ncalls, histVars>>

ErrRead(t) ==
    /\ At(t, "Err", "lock")
    /\ mu[Top(stack[t]).c] = Free
    /\ Return(t)
    /\ UNCHANGED <<treeVars, chanVars, err, children, mu, timerVars, now,
                   panics, ncalls, histVars>>

\* <-ctx.Done() by a caller: Done() is called, then the caller receives
WaitFrame(n) == Frame("wait", "recv", n)

WaitCall(t, n) ==
    /\ Idle(t)
    /\ n \in Avail
    /\ IF DoneFast(n)
       THEN Finish(t, << [WaitFrame(n) EXCEPT !.ret = DoneNow(n)] >>)
       ELSE Finish(t, << WaitFrame(n), DoneFrame(n) >>)
    /\ late' = [late EXCEPT ![t] = (err[Owner(n)] # NoErr)]
    /\ UNCHANGED <<treeVars, chanVars, err, children, mu, timerVars, now,
                   panics, ncalls, regIn, cause, nSetErr, nClose, nFanout,
                   asked, pastAtCall, got, nmisuse>>

\* the receive from the channel Done() returned: it blocks until the
\* channel is closed, and for ever on a nil channel
WaitRecv(t) ==
    /\ At(t, "wait", "recv")
    /\ IsClosed(Top(stack[t]).ret)
    /\ Return(t)
    /\ UNCHANGED <<treeVars, chanVars, err, children, mu, timerVars, now,
                   panics, ncalls, histVars>>

\* ------------------------------------------------------- cancelCtx.Done
\* The locked part of Done(): make the channel unless one is stored.
DoneSlow(t) ==
    /\ At(t, "Done", "slow")
    /\ LET c == Top(stack[t]).c IN
       /\ mu[c] = Free
       /\ IF MustMake(c)
          THEN /\ nchan' = nchan + 1
               /\ done' = [done EXCEPT ![c] = nchan + 1]
               /\ ReturnVal(t, nchan + 1)
          ELSE /\ UNCHANGED <<nchan, done>>
               /\ ReturnVal(t, done[c])
    /\ UNCHANGED <<treeVars, closed, err, children, mu, timerVars, now,
                   panics, ncalls, histVars>>

\* ------------------------------------------------------ propagateCancel
\* select { case <-done: ... default: }, then p, ok := parentCancelCtx(parent)
\* (its parent.Done() loads the channel the call above has stored).  When no
\* *cancelCtx is found the watcher goroutine is started.
PropagateSelect(t) ==
    /\ At(t, "propagateCancel", "select")
    /\ LET f == Top(stack[t]) IN
       IF IsClosed(f.ret)
       THEN Goto(t, [f EXCEPT !.pc = "err"])
       ELSE LET q == parentCancelCtx(f.p, DoneNow(f.p)) IN
            IF q = NoCtx
            THEN FinishOn([stack EXCEPT ![WatchTask(f.c)] = << WatchFrame(f.p, f.c) >>],
                          t, SetTop(stack[t], [f EXCEPT !.pc = "ret"]))
            ELSE Goto(t, [f EXCEPT !.pc = "lock", !.q = q])
    /\ UNCHANGED <<treeVars, chanVars, err, children, mu, timerVars, now,
                   panics, ncalls, histVars>>

\* parent is already canceled: child.cancel(false, parent.Err()), where
\* Err() takes the lock of the scope that owns the error.
PropagateErr(t) ==
    /\ At(t, "propagateCancel", "err")
    /\ LET f == Top(stack[t])
           o == Owner(f.p)
       IN /\ mu[o] = Free
          /\ Call(t, [f EXCEPT !.pc = "ret"],
                  << CancelCall(f.c, FALSE, err[o], Propagated(o)) >>)
    /\ UNCHANGED <<treeVars, chanVars, err, children, mu, timerVars, now,
                   panics, ncalls, histVars>>

\* (variant: the parent is taken to be live)
ParentLive(q) == FALSE

\* p.err != nil under p.mu
ParentCanceled(q) == err[q] # NoErr

\* p.mu.Lock(); then child.cancel(false, p.err) with the lock held, or the
\* child goes into p.children and the lock is released.
PropagateLock(t) ==
    /\ At(t, "propagateCancel", "lock")
    /\ LET f == Top(stack[t]) IN
       /\ mu[f.q] = Free
       /\ IF ParentCanceled(f.q)
          THEN /\ mu' = [mu EXCEPT ![f.q] = t]
               /\ Call(t, [f EXCEPT !.pc = "unlock"],
                       << CancelCall(f.c, FALSE, err[f.q], Propagated(f.q)) >>)
               /\ UNCHANGED <<children, regIn>>
          ELSE /\ children' = [children EXCEPT ![f.q] = @ \cup {f.c}]
               /\ regIn' = [regIn EXCEPT ![f.c] = f.q]
               /\ Return(t)
               /\ UNCHANGED mu
    /\ UNCHANGED <<treeVars, chanVars, err, timerVars, now, panics, ncalls,
                   cause, nSetErr, nClose, nFanout, inputHist>>

\* p.mu.Unlock() after the child was canceled
PropagateUnlock(t) ==
    /\ At(t, "propagateCancel", "unlock")
    /\ mu' = [mu EXCEPT ![Top(stack[t]).q] = Free]
    /\ Return(t)
    /\ UNCHANGED <<treeVars, chanVars, err, children, timerVars, now, panics,
                   ncalls, histVars>>

\* ------------------------------------------------------------ removeChild
\* what follows removeChild: cancelCtx.cancel returns, timerCtx.cancel goes
\* on to stop its timer
AfterRemove(t, f) ==
    IF f.fn = "tcancel"
    THEN Goto(t, [f EXCEPT !.pc = "stop"])
    ELSE ReturnAs(t, f)

\* what follows the locked part of cancelCtx.cancel: if removeFromParent,
\* removeChild(c.Context, c), which looks for the parent's *cancelCtx (the
\* parent stored its channel when c was derived from it)
AfterLocked(t, f) ==
    IF f.rfp
    THEN LET q == parentCancelCtx(parent[f.c], DoneNow(parent[f.c])) IN
         IF q = NoCtx
         THEN AfterRemove(t, f)
         ELSE Goto(t, [f EXCEPT !.pc = "delete", !.q = q])
    ELSE AfterRemove(t, f)

\* (variant: delete leaves the child in)
KeepsChild(q, c) == children[q]

\* the children set of p after delete(p.children, child)
\* (variant: removeChild drops the whole children map of the parent)
DropsAll(q, c) == {}

Deleted(q, c) == children[q] \ {c}

\* p.mu.Lock(); delete(p.children, child); p.mu.Unlock()
RemoveDelete(t) ==
    /\ stack[t] # <<>>
    /\ Top(stack[t]).pc = "delete"
    /\ LET f == Top(stack[t]) IN
       /\ mu[f.q] = Free
       /\ children' = [children EXCEPT ![f.q] = Deleted(f.q, f.c)]
       /\ AfterRemove(t, f)
    /\ UNCHANGED <<treeVars, chanVars, err, mu, timerVars, now, panics,
                   ncalls, histVars>>

\* ------------------------------------------------------- cancelCtx.cancel
\* (variants: the check never finds, or finds only a deadline error)
NeverCanceled(c) == FALSE
CanceledByDeadline(c) == err[c] = DeadlineExceeded

\* c.err != nil under c.mu: already canceled
AlreadyCanceled(c) == err[c] # NoErr

\* d == nil: no channel was made, closedchan is stored instead of a close
\* (variant: a canceled scope without a channel keeps none)
StoresNothing(c) == FALSE

StoresClosedchan(c) == done[c] = NoChan

\* (variant: the loop visits nothing)
NoChildren(c) == {}

\* the children the loop of cancel ranges over
LoopChildren(c) == children[c]

\* (variant: the loop hands Canceled to every child)
AlwaysCanceled(f) == Canceled
\* (variant: the loop hands a nil error to every child)
ChildNilErr(f) == NoErr

\* the error the loop hands to a child
ChildErr(f) == f.e

\* the orders in which range can visit the children
Orders(S) ==
    {o \in [1..Cardinality(S) -> S] : \A i, j \in DOMAIN o : o[i] = o[j] => i = j}

\* (variant: child.cancel(true, err), each child detaches itself from the
\* scope whose loop is canceling it)
LoopCallsRemoving(f, o) ==
    [i \in DOMAIN o |->
        CancelCall(o[Len(o) + 1 - i], TRUE, ChildErr(f), Propagated(f.c))]

\* the calls child.cancel(false, err) of the loop; the last frame runs first
LoopCalls(f, o) ==
    [i \in DOMAIN o |->
        CancelCall(o[Len(o) + 1 - i], FALSE, ChildErr(f), Propagated(f.c))]

\* (variant: err is set and done is left as it is)
SetErrOnly(f) ==
    /\ err' = [err EXCEPT ![f.c] = f.e]
    /\ nSetErr' = [nSetErr EXCEPT ![f.c] = @ + 1]
    /\ cause' = [cause EXCEPT ![f.c] = f.org]
    /\ nClose' = [nClose EXCEPT ![f.c] = @ + 1]
    /\ UNCHANGED <<done, closed>>

\* c.err = err; d, _ := c.done.Load(); store closedchan or close(d)
SetErrAndClose(f) ==
    /\ err' = [err EXCEPT ![f.c] = f.e]
    /\ nSetErr' = [nSetErr EXCEPT ![f.c] = @ + 1]
    /\ cause' = [cause EXCEPT ![f.c] = f.org]
    /\ nClose' = [nClose EXCEPT ![f.c] = @ + 1]
    /\ IF StoresClosedchan(f.c)
       THEN /\ done' = [done EXCEPT ![f.c] = closedchan]
            /\ UNCHANGED closed
       ELSE /\ closed' = closed \cup {done[f.c]}
            /\ UNCHANGED done

\* cancelCtx.cancel from c.mu.Lock() on: an already canceled scope returns;
\* else err is set, done is closed, and the loop over the children starts
\* with c.mu held (a scope without children is unlocked at once).
\* (variant: c.mu is released before the loop over the children)
UnlockedLoop(t) == Free

\* c.mu stays with the canceling goroutine while the loop over the
\* children runs
LoopHolder(t) == t

CancelLock(t) ==
    /\ stack[t] # <<>>
    /\ Top(stack[t]).fn \in {"cancel", "tcancel"}
    /\ Top(stack[t]).pc = "lock"
    /\ LET f == Top(stack[t]) IN
       IF f.e = NoErr
       THEN /\ Panic(t, "context: internal error: missing cancel error")
            /\ UNCHANGED <<done, closed, err, children, mu, cause, nSetErr,
                           nClose, nFanout>>
       ELSE
       /\ mu[f.c] = Free
       /\ IF AlreadyCanceled(f.c)
          THEN /\ AfterLocked(t, f)
               /\ UNCHANGED <<done, closed, err, children, mu, panics, cause,
                              nSetErr, nClose, nFanout>>
          ELSE IF ~StoresClosedchan(f.c) /\ IsClosed(done[f.c])
          THEN /\ Panic(t, "close of closed channel")
               /\ err' = [err EXCEPT ![f.c] = f.e]
               /\ nSetErr' = [nSetErr EXCEPT ![f.c] = @ + 1]
               /\ nClose' = [nClose EXCEPT ![f.c] = @ + 1]
               /\ mu' = [mu EXCEPT ![f.c] = t]
               /\ UNCHANGED <<done, closed, children, cause, nFanout>>
          ELSE /\ SetErrAndClose(f)
               /\ nFanout' = [nFanout EXCEPT ![f.c] = @ + 1]
               /\ UNCHANGED panics
               /\ IF LoopChildren(f.c) = {}
                  THEN /\ children' = [children EXCEPT ![f.c] = {}]
                       /\ AfterLocked(t, f)
                       /\ UNCHANGED mu
                  ELSE /\ mu' = [mu EXCEPT ![f.c] = LoopHolder(t)]
                       /\ \E o \in Orders(LoopChildren(f.c)) :
                             Call(t, [f EXCEPT !.pc = "unlock"], LoopCalls(f, o))
                       /\ UNCHANGED children
    /\ UNCHANGED <<treeVars, nchan, timerVars, now, ncalls, regIn, inputHist>>

\* after the loop: c.children = nil; c.mu.Unlock()
CancelUnlock(t) ==
    /\ stack[t] # <<>>
    /\ Top(stack[t]).fn \in {"cancel", "tcancel"}
    /\ Top(stack[t]).pc = "unlock"
    /\ LET f == Top(stack[t]) IN
       /\ children' = [children EXCEPT ![f.c] = {}]
       /\ mu' = [mu EXCEPT ![f.c] = Free]
       /\ AfterLocked(t, f)
    /\ UNCHANGED <<treeVars, chanVars, err, timerVars, now, panics, ncalls,
                   histVars>>

\* ------------------------------------------------------- timerCtx.cancel
\* (variant: Stop leaves the timer armed)
StaysArmed(c) == tstate[c]

\* the runtime timer after c.timer.Stop(): a timer that fired stays fired
Stopped(c) == IF tstate[c] = "armed" THEN "stopped" ELSE tstate[c]

\* c.mu.Lock(); if c.timer != nil { c.timer.Stop(); c.timer = nil };
\* c.mu.Unlock()
TimerStop(t) ==
    /\ At(t, "tcancel", "stop")
    /\ LET c == Top(stack[t]).c IN
       /\ mu[c] = Free
       /\ IF timer[c]
          THEN /\ tstate' = [tstate EXCEPT ![c] = Stopped(c)]
               /\ timer' = [timer EXCEPT ![c] = FALSE]
          ELSE UNCHANGED <<tstate, timer>>
       /\ Return(t)
    /\ UNCHANGED <<treeVars, chanVars, err, children, mu, fireAt, now, panics,
                   ncalls, histVars>>

\* ----------------------------------------------------------- WithDeadline
\* dur := time.Until(d); if dur <= 0 { c.cancel(true, DeadlineExceeded);
\* return c, func() { c.cancel(false, Canceled) } }
\* (variant: a deadline equal to the clock is taken to be ahead)
PassedStrictly(dur) == dur < 0
\* (variant: every deadline counts as passed)
AlwaysPassed(dur) == TRUE

\* dur <= 0: the deadline has already passed
AlreadyPassed(dur) == dur <= 0

DeadlineUntil(t) ==
    /\ At(t, "WithDeadline", "until")
    /\ LET f == Top(stack[t])
           dur == f.d - now
       IN IF AlreadyPassed(dur)
          THEN Call(t, [f EXCEPT !.pc = "ret", !.rfp = FALSE],
                    << CancelCall(f.c, TRUE, DeadlineExceeded, OwnDeadline(f.c)) >>)
          ELSE Goto(t, [f EXCEPT !.pc = "timer", !.d = dur])
    /\ UNCHANGED <<treeVars, chanVars, err, children, mu, timerVars, now,
                   panics, ncalls, histVars>>

\* (variant: no timer is ever registered)
NeverRegisters(c) == FALSE
\* (variant: the timer is registered whatever c.err is)
AlwaysRegisters(c) == TRUE

\* c.err == nil under c.mu: the timer is registered
RegistersTimer(c) == err[c] = NoErr

\* c.mu.Lock(); if c.err == nil { c.timer = time.AfterFunc(dur, ...) };
\* return c, func() { c.cancel(true, Canceled) }
DeadlineTimer(t) ==
    /\ At(t, "WithDeadline", "timer")
    /\ LET f == Top(stack[t]) IN
       /\ mu[f.c] = Free
       /\ IF RegistersTimer(f.c)
          THEN /\ timer' = [timer EXCEPT ![f.c] = TRUE]
               /\ tstate' = [tstate EXCEPT ![f.c] = "armed"]
               /\ fireAt' = [fireAt EXCEPT ![f.c] = now + f.d]
          ELSE UNCHANGED timerVars
       /\ Return(t)
    /\ UNCHANGED <<treeVars, chanVars, err, children, mu, now, panics, ncalls,
                   histVars>>

\* --------------------------------------------- the watcher goroutine
\* child.Done(), evaluated when the select is entered
WatchDone(t) ==
    /\ At(t, "watch", "cdone")
    /\ LET f == Top(stack[t]) IN
       IF DoneFast(f.c)
       THEN Goto(t, [f EXCEPT !.pc = "select", !.ret = DoneNow(f.c)])
       ELSE Call(t, [f EXCEPT !.pc = "select"], << DoneFrame(f.c) >>)
    /\ UNCHANGED <<treeVars, chanVars, err, children, mu, timerVars, now,
                   panics, ncalls, histVars>>

\* (variant: the select of the goroutine has no case for the parent)
NoParentCase(t) == FALSE /\ UNCHANGED vars
\* (variant: the select of the goroutine has no case for the child)
NoChildCase(t) == FALSE /\ UNCHANGED vars

\* case <-parent.Done(): child.cancel(false, parent.Err())
WatchParent(t) ==
    /\ At(t, "watch", "select")
    /\ LET f == Top(stack[t]) IN
       /\ IsClosed(DoneNow(f.p))
       /\ Call(t, [f EXCEPT !.pc = "ret"],
               << CancelCall(f.c, FALSE, err[Owner(f.p)],
                             Propagated(Owner(f.p))) >>)
    /\ UNCHANGED <<treeVars, chanVars, err, children, mu, timerVars, now,
                   panics, ncalls, histVars>>

\* case <-child.Done(): the goroutine ends
WatchChild(t) ==
    /\ At(t, "watch", "select")
    /\ IsClosed(Top(stack[t]).ret)
    /\ Return(t)
    /\ UNCHANGED <<treeVars, chanVars, err, children, mu, timerVars, now,
                   panics, ncalls, histVars>>

\* ------------------------------------------------- foreign Contexts
\* A Context implemented outside the package: it embeds a parent Context
\* for Deadline and Value and has a Done channel and an Err of its own.
NewForeign(t, p, lim) ==
    /\ Idle(t)
    /\ p \in Avail
    /\ nctx < lim
    /\ NewScope(nctx + 1, "foreign", p, NoTime, NoKey, NoVal)
    /\ returned' = [returned EXCEPT ![nctx + 1] = TRUE]
    /\ nchan' = nchan + 1
    /\ done' = [done EXCEPT ![nctx + 1] = nchan + 1]
    /\ UNCHANGED <<closed, err, children, mu, timerVars, now, stack,
                   cancelRfp, cancelReturned, panics, ncalls, histVars>>

\* Its owner cancels it: from then on Done is closed and Err is e.
ForeignCancel(n, e) ==
    /\ kind[n] = "foreign"
    /\ err[n] = NoErr
    /\ err' = [err EXCEPT ![n] = e]
    /\ closed' = closed \cup {done[n]}
    /\ UNCHANGED <<treeVars, done, nchan, children, mu, timerVars, now,
                   callVars, panics, ncalls, histVars>>

\* ------------------------------------------------------ timer and clock
\* The runtime runs the AfterFunc callback once its time has come:
\* c.cancel(true, DeadlineExceeded) in a task of its own.
TimerFire(c) ==
    /\ tstate[c] = "armed"
    /\ now >= fireAt[c]
    /\ tstate' = [tstate EXCEPT ![c] = "fired"]
    /\ stack' = [stack EXCEPT ![TimerTask(c)] =
                    << CancelCall(c, TRUE, DeadlineExceeded, OwnDeadline(c)) >>]
    /\ UNCHANGED <<treeVars, chanVars, err, children, mu, timer, fireAt, now,
                   returned, cancelRfp, cancelReturned, panics, ncalls,
                   histVars>>

\* The clock advances, up to max.
Tick(max) ==
    /\ now < max
    /\ now' = now + 1
    /\ UNCHANGED <<treeVars, chanVars, err, children, mu, timerVars, callVars,
                   panics, ncalls, histVars>>

\* The clock advances towards the time of an armed timer.
TickToTimer ==
    /\ \E c \in Derived : tstate[c] = "armed" /\ now < fireAt[c]
    /\ now' = now + 1
    /\ UNCHANGED <<treeVars, chanVars, err, children, mu, timerVars, callVars,
                   panics, ncalls, histVars>>

\* ------------------------------------------------------------- Next
Step(t) ==
    \/ DoneSlow(t)
    \/ PropagateSelect(t)
    \/ PropagateErr(t)
    \/ PropagateLock(t)
    \/ PropagateUnlock(t)
    \/ CancelLock(t)
    \/ CancelUnlock(t)
    \/ RemoveDelete(t)
    \/ TimerStop(t)
    \/ DeadlineUntil(t)
    \/ DeadlineTimer(t)

Watch(t) ==
    \/ WatchDone(t)
    \/ WatchParent(t)
    \/ WatchChild(t)

Next ==
    \/ \E t \in Procs, p \in Scopes : WithCancel(t, p, MaxNodes)
    \/ \E t \in Procs, p \in Scopes, d \in Times : WithDeadline(t, p, d, MaxNodes)
    \/ \E t \in Procs, p \in Scopes, timeout \in 0..MaxDur :
          WithTimeout(t, p, timeout, MaxNodes)
    \/ \E t \in Procs, p \in Scopes, k \in Keys, v \in Vals :
          WithValue(t, p, k, v, MaxNodes)
    \/ \E t \in Procs, c \in Derived : CancelFunc(t, c)
    \/ \E t \in Procs, n \in Derived : DoneCall(t, n)
    \/ \E t \in Procs, p \in Scopes : NewForeign(t, p, MaxNodes)
    \/ \E n \in Derived, e \in {Canceled, DeadlineExceeded} : ForeignCancel(n, e)
    \/ \E t \in Tasks : Step(t)
    \/ \E t \in Tasks : Watch(t)
    \/ \E c \in Derived : TimerFire(c)
    \/ Tick(MaxTime)

\* Two scopes, every operation, the clock, timers and foreign parents.
Spec == Init /\ [][Next]_vars

\* Chains of three scopes: the clock stands at 0, deadlines are in the
\* future and no timer fires.
NextChain ==
    \/ \E t \in Procs, p \in Scopes : WithCancel(t, p, ChainNodes)
    \/ \E t \in Procs, p \in Scopes : WithDeadline(t, p, MaxTime, ChainNodes)
    \/ \E t \in Procs, p \in Scopes, k \in Keys, v \in Vals :
          WithValue(t, p, k, v, ChainNodes)
    \/ \E t \in Procs, c \in Derived : CancelFunc(t, c)
    \/ \E t \in Tasks : Step(t)

SpecChain == Init /\ [][NextChain]_vars

\* Timed scopes that nobody cancels, under fair scheduling: every task
\* that can step does step, a timer whose time has come fires, and the
\* clock reaches the time of every armed timer.
NextFair ==
    \/ \E t \in Procs, p \in Scopes, d \in Times : WithDeadline(t, p, d, MaxNodes)
    \/ \E t \in Tasks : Step(t)
    \/ \E c \in Derived : TimerFire(c)
    \/ Tick(MaxTime)
    \/ TickToTimer

FairSpec ==
    /\ Init
    /\ [][NextFair]_vars
    /\ \A t \in Procs : WF_vars(Step(t))
    /\ \A c \in 1..MaxNodes : WF_vars(Step(TimerTask(c)))
    /\ \A c \in 1..MaxNodes : WF_vars(TimerFire(c))
    /\ WF_vars(TickToTimer)

\* Trees of three live scopes of every kind, with two keys and two values,
\* and callers that look keys up.
NextValue ==
    \/ \E t \in Procs, p \in Scopes : WithCancel(t, p, ChainNodes)
    \/ \E t \in Procs, p \in Scopes : WithDeadline(t, p, MaxTime, ChainNodes)
    \/ \E t \in Procs, p \in Scopes, k \in 1..MaxLookupKey, v \in 1..MaxLookupVal :
          WithValue(t, p, k, v, ChainNodes)
    \/ \E t \in Procs, n \in Scopes, k \in 1..MaxLookupKey : Lookup(t, n, k)
    \/ \E t \in Procs : DoneSlow(t)
    \/ \E t \in Procs : PropagateSelect(t)
    \/ \E t \in Procs : PropagateLock(t)
    \/ \E t \in Procs : DeadlineUntil(t)
    \/ \E t \in Procs : DeadlineTimer(t)

SpecValue == Init /\ [][NextValue]_vars

\* Callers that wait on the Done channel of scopes that are canceled by
\* CancelFunc, by their timer and from their parent.
NextWait ==
    \/ \E t \in Procs, p \in Scopes, d \in Times : WithDeadline(t, p, d, MaxNodes)
    \/ \E t \in Procs, c \in Derived : WaitCall(t, c)
    \/ \E t \in Procs : WaitRecv(t)
    \/ \E t \in Tasks : Step(t)
    \/ \E c \in Derived : TimerFire(c)
    \/ Tick(MaxTime)
    \/ TickToTimer

\* Every goroutine that can run is scheduled; a timer whose time has come
\* fires; time passes while a timer is armed.
FairWait ==
    /\ Init
    /\ [][NextWait]_vars
    /\ \A t \in Procs : WF_vars(Step(t) \/ WaitRecv(t))
    /\ \A c \in 1..MaxNodes : WF_vars(TimerFire(c) \/ Step(TimerTask(c)))
    /\ WF_vars(TickToTimer)

\* Two scopes and callers that pass a nil parent, a nil key or a key that
\* is not comparable, and foreign parents whose Done channel is closed while
\* their Err() is still nil.
NextMisuse ==
    \/ \E t \in Procs, p \in Scopes \cup {NoCtx} : WithCancel(t, p, MaxNodes)
    \/ \E t \in Procs, p \in Scopes \cup {NoCtx} :
          WithDeadline(t, p, MaxTime, MaxNodes)
    \/ \E t \in Procs, p \in Scopes \cup {NoCtx},
          k \in Keys \cup {NoKey, sliceKey}, v \in Vals :
          WithValue(t, p, k, v, MaxNodes)
    \/ \E t \in Procs, c \in Derived : CancelFunc(t, c)
    \/ \E t \in Procs, p \in Scopes : NewForeign(t, p, MaxNodes)
    \/ \E n \in Derived, e \in {NoErr, Canceled} : ForeignCancel(n, e)
    \/ \E t \in Tasks : Step(t)
    \/ \E t \in Tasks : Watch(t)

SpecMisuse == Init /\ [][NextMisuse]_vars

\* Callers of Done() racing with each other, with deriving callers and
\* with cancels by CancelFunc.
NextDone ==
    \/ \E t \in Procs, p \in Scopes : WithCancel(t, p, MaxNodes)
    \/ \E t \in Procs, p \in Scopes : WithDeadline(t, p, MaxTime, MaxNodes)
    \/ \E t \in Procs, c \in Derived : CancelFunc(t, c)
    \/ \E t \in Procs, c \in Derived : WaitCall(t, c)
    \/ \E t \in Procs : WaitRecv(t)
    \/ \E t \in Tasks : Step(t)

SpecDone == Init /\ [][NextDone]_vars

\* Two scopes with every call that takes a lock: deriving (whose
\* propagateCancel calls parent.Done()), canceling, timer callbacks and
\* Err(); no caller waits on a Done channel.
NextCalls ==
    \/ \E t \in Procs, p \in Scopes : WithCancel(t, p, MaxNodes)
    \/ \E t \in Procs, p \in Scopes : WithDeadline(t, p, MaxTime, MaxNodes)
    \/ \E t \in Procs, c \in Derived :
          ncalls[c] < MaxFairCalls /\ CancelFunc(t, c)
    \/ \E t \in Procs, c \in Derived : ErrCall(t, c)
    \/ \E t \in Procs : ErrRead(t)
    \/ \E t \in Tasks : Step(t)
    \/ \E c \in Derived : TimerFire(c)
    \/ TickToTimer

\* Every goroutine that can run is scheduled; a timer whose time has come
\* fires; time passes while a timer is armed.
FairCalls ==
    /\ Init
    /\ [][NextCalls]_vars
    /\ \A t \in Procs : WF_vars(Step(t) \/ ErrRead(t))
    /\ \A c \in 1..MaxNodes : WF_vars(TimerFire(c) \/ Step(TimerTask(c)))
    /\ WF_vars(TickToTimer)

\* Two scopes made by WithDeadline with deadlines before, at and after the
\* clock, a clock that can run past a deadline before the timer's callback
\* runs, and CancelFunc calls.
NextPast ==
    \/ \E t \in Procs, p \in Scopes, d \in 0..PastTime :
          WithDeadline(t, p, d, MaxNodes)
    \/ \E t \in Procs, c \in Derived : CancelFunc(t, c)
    \/ \E t \in Tasks : Step(t)
    \/ \E c \in Derived : TimerFire(c)
    \/ Tick(PastTime)

SpecPast == Init /\ [][NextPast]_vars

\* Trees of three scopes with foreign parents: cancelable and timed scopes
\* (the clock stands at 0 and no timer fires), value scopes and Contexts
\* implemented outside the package, derived from each
\* other in every order, with CancelFunc calls, the foreign owner's cancel
\* and the watcher goroutines.
NextWatch ==
    \/ \E t \in Procs, p \in Scopes : WithCancel(t, p, ChainNodes)
    \/ \E t \in Procs, p \in Scopes : WithDeadline(t, p, MaxTime, ChainNodes)
    \/ \E t \in Procs, p \in Scopes, k \in Keys, v \in Vals :
          WithValue(t, p, k, v, ChainNodes)
    \/ \E t \in Procs, p \in Scopes : NewForeign(t, p, ChainNodes)
    \/ \E n \in Derived : ForeignCancel(n, Canceled)
    \/ \E t \in Procs, c \in Derived : CancelFunc(t, c)
    \/ \E t \in Tasks : Step(t)
    \/ \E t \in Tasks : Watch(t)

SpecWatch == Init /\ [][NextWatch]_vars

\* Scopes derived from foreign Contexts, under fair scheduling: every
\* goroutine that can run, the watchers among them, is scheduled; whether
\* and when a CancelFunc is called or a foreign Context is canceled is up
\* to the callers.
NextFairWatch ==
    \/ \E t \in Procs, p \in Scopes : WithCancel(t, p, MaxNodes)
    \/ \E t \in Procs, p \in Scopes : WithDeadline(t, p, MaxTime, MaxNodes)
    \/ \E t \in Procs, p \in Scopes : NewForeign(t, p, MaxNodes)
    \/ \E n \in Derived, e \in {Canceled, DeadlineExceeded} : ForeignCancel(n, e)
    \/ \E t \in Procs, c \in Derived :
          ncalls[c] < MaxFairCalls /\ CancelFunc(t, c)
    \/ \E t \in Tasks : Step(t)
    \/ \E t \in Tasks : Watch(t)

FairWatch ==
    /\ Init
    /\ [][NextFairWatch]_vars
    /\ \A t \in Procs : WF_vars(Step(t))
    /\ \A c \in 1..MaxNodes : WF_vars(Watch(WatchTask(c)) \/ Step(WatchTask(c)))

\* Both roots: two scopes derived from Background and TODO, every
\* operation of the package, the clock and timers.
NextRoots ==
    \/ \E t \in Procs, p \in Nodes : WithCancel(t, p, MaxNodes)
    \/ \E t \in Procs, p \in Nodes, d \in Times : WithDeadline(t, p, d, MaxNodes)
    \/ \E t \in Procs, p \in Nodes, k \in Keys, v \in Vals :
          WithValue(t, p, k, v, MaxNodes)
    \/ \E t \in Procs, c \in Derived : CancelFunc(t, c)
    \/ \E t \in Procs, r \in Roots, k \in Keys : Lookup(t, r, k)
    \/ \E t \in Tasks : Step(t)
    \/ \E c \in Derived : TimerFire(c)
    \/ Tick(MaxTime)

SpecRoots == Init /\ [][NextRoots]_vars

\* ---------------------------------------------------------- properties
Native(c) == kind[c] \in {"cancel", "timer"}

\* c was put into the children of p, or of a scope registered below p
RECURSIVE RegisteredUnder(_, _)
RegisteredUnder(c, p) ==
    /\ regIn[c] # NoCtx
    /\ \/ regIn[c] = p
       \/ RegisteredUnder(regIn[c], p)

\* a frame of cancel on c that is past its locked part
PastLock(f, c) ==
    /\ f.fn \in {"cancel", "tcancel"}
    /\ f.c = c
    /\ f.pc # "lock"

\* task t runs a CancelFunc of c
Cancelling(t, c) ==
    /\ stack[t] # <<>>
    /\ stack[t][1].fn = "CancelFunc"
    /\ stack[t][1].c = c

\* C1: once a call of the CancelFunc of a scope has returned, every scope
\* that was registered in its subtree (its children and theirs) has a
\* non-nil err and a closed done channel.
C1_PropagationFastPath ==
    \A p \in Derived : \A c \in Derived :
        (Native(p) /\ cancelReturned[p] /\ RegisteredUnder(c, p))
            => (err[c] # NoErr /\ IsClosed(done[c]))

\* a chain parent -> child -> grandchild whose parent was canceled by its
\* CancelFunc and reached both descendants through the children sets
C1_Witness ==
    \E p \in Derived : \E c \in Derived : \E g \in Derived :
        /\ cancelReturned[p]
        /\ cause[p] = OwnCancel(p)
        /\ regIn[c] = p /\ cause[c] = Propagated(p)
        /\ regIn[g] = c /\ cause[g] = Propagated(c)

\* C2: in every step, the err of a scope that is non-nil stays what it is.
C2_OneWayLatch ==
    [][\A c \in Derived : (Native(c) /\ err[c] # NoErr) => err'[c] = err[c]]_vars

\* a cancel with another error is about to run on a canceled scope
C2_Witness ==
    \E c \in Derived : \E t \in Tasks :
        /\ err[c] # NoErr
        /\ stack[t] # <<>>
        /\ Top(stack[t]).fn \in {"cancel", "tcancel"}
        /\ Top(stack[t]).c = c
        /\ Top(stack[t]).pc = "lock"
        /\ Top(stack[t]).e # err[c]

C4_ConcurrentCancels ==
    /\ \A c \in Derived :
          Native(c) =>
            /\ nSetErr[c] = (IF err[c] # NoErr THEN 1 ELSE 0)
            /\ nClose[c] = nSetErr[c]
            /\ nFanout[c] = nSetErr[c]
    /\ panics = {}

\* two tasks are in cancel on the same scope, both past the locked part
C4_Witness ==
    \E c \in Derived : \E t1 \in Tasks : \E t2 \in Tasks :
        /\ t1 # t2
        /\ stack[t1] # <<>> /\ PastLock(Top(stack[t1]), c)
        /\ stack[t2] # <<>> /\ PastLock(Top(stack[t2]), c)

\* C5: a child derived from a native parent (directly or through value
\* scopes) whose derive call has returned has a non-nil err once a call of
\* the parent's CancelFunc has returned; and whenever the parent is canceled
\* and its lock is free, its children set is empty and every scope that was
\* registered in it is canceled.
C5_RegistrationRace ==
    /\ \A c \in Derived :
          (Native(c) /\ returned[c] /\ Native(Owner(parent[c]))
                /\ cancelReturned[Owner(parent[c])])
             => err[c] # NoErr
    /\ \A p \in Derived :
          (Native(p) /\ err[p] # NoErr /\ mu[p] = Free)
             => /\ children[p] = {}
                /\ \A c \in Derived : regIn[c] = p => err[c] # NoErr

\* the derive polled the parent's channel open and then found the parent
\* canceled under its lock; the child has been canceled
C5_Witness ==
    \E t \in Procs :
        /\ At(t, "propagateCancel", "unlock")
        /\ err[Top(stack[t]).c] # NoErr

\* C6: the done channel of a scope is closed only if its err is non-nil,
\* and whenever the lock of the scope is free (Err() can return) err is
\* non-nil exactly if the done channel is closed.
C6_ErrDoneAgreement ==
    \A c \in Derived :
        Native(c) =>
            /\ IsClosed(done[c]) => err[c] # NoErr
            /\ mu[c] = Free => (err[c] # NoErr <=> IsClosed(done[c]))

\* a channel that Done() made has been closed by cancel
C6_Witness ==
    \E c \in Derived :
        /\ Native(c)
        /\ done[c] # closedchan
        /\ IsClosed(done[c])
        /\ err[c] # NoErr
        /\ mu[c] = Free

C8_ErrorKind ==
    \A c \in Derived :
        Native(c) =>
            /\ err[c] \in {NoErr, Canceled, DeadlineExceeded}
            /\ err[c] # NoErr =>
                 CASE cause[c].why = "cancel" -> err[c] = Canceled
                   [] cause[c].why = "deadline" -> err[c] = DeadlineExceeded
                   [] cause[c].why = "propagated" ->
                        /\ err[cause[c].from] # NoErr
                        /\ err[c] = err[cause[c].from]
                   [] OTHER -> FALSE

\* a deadline error went from a timed scope to its registered child
C8_Witness ==
    \E c \in Derived :
        /\ Native(c)
        /\ cause[c].why = "propagated"
        /\ Native(cause[c].from)
        /\ err[c] = DeadlineExceeded

\* A = WithCancel(root), B a timed scope derived from A
TimedUnderCancel(a, b) ==
    /\ kind[a] = "cancel" /\ parent[a] = background
    /\ kind[b] = "timer" /\ parent[b] = a
    /\ returned[b]

\* some task is in a call of cancel on c
InCancel(c) ==
    \E t \in Tasks : \E i \in DOMAIN stack[t] :
        stack[t][i].fn \in {"cancel", "tcancel"} /\ stack[t][i].c = c

\* C9: with A = WithCancel(root) and B = WithTimeout(A, d): when A's
\* CancelFunc has returned while B's deadline is still ahead, B's err is
\* Canceled and (no other call of cancel on B being under way) B's timer is
\* cleared and not armed; a timer that was stopped belongs to a scope whose
\* err is Canceled; and a timer that is stopped or was never made stays so.
C9_ParentCancelBeatsTimeout ==
    /\ [](\A a \in Derived : \A b \in Derived :
            TimedUnderCancel(a, b) =>
              /\ (cancelReturned[a] /\ now < deadline[b]) =>
                    /\ err[b] = Canceled
                    /\ ~InCancel(b) =>
                          (~timer[b] /\ tstate[b] \in {"none", "stopped"})
              /\ tstate[b] = "stopped" => (err[b] = Canceled /\ ~timer[b]))
    /\ [][\A a \in Derived : \A b \in Derived :
            (TimedUnderCancel(a, b) /\ tstate[b] \in {"none", "stopped"})
               => tstate'[b] = tstate[b]]_vars

\* B's timer was armed and A's CancelFunc, returned before the deadline,
\* stopped it
C9_Witness ==
    \E a \in Derived : \E b \in Derived :
        /\ TimedUnderCancel(a, b)
        /\ cancelReturned[a]
        /\ now < deadline[b]
        /\ cause[b] = Propagated(a)
        /\ ncalls[b] = 0
        /\ tstate[b] = "stopped"

\* WithDeadline(root, d) found d in the future and is about to make the timer
FutureDeadline(c) ==
    /\ parent[c] = background
    /\ \E t \in Procs : At(t, "WithDeadline", "timer") /\ Top(stack[t]).c = c

\* C10: under fair scheduling, a scope made by WithDeadline(root, d) with d
\* in the future whose CancelFunc nobody invokes eventually has err
\* DeadlineExceeded and a closed done channel.
C10_ExpiryLiveness ==
    \A c \in Derived :
        FutureDeadline(c) ~> (err[c] = DeadlineExceeded /\ IsClosed(done[c]))

\* the timer callback has canceled such a scope
C10_Witness ==
    \E c \in Derived :
        /\ kind[c] = "timer" /\ parent[c] = background
        /\ ncalls[c] = 0
        /\ tstate[c] = "fired"
        /\ err[c] = DeadlineExceeded
        /\ IsClosed(done[c])

\* C11 as claimed: for every parent, a scope returned by WithDeadline with a
\* deadline not later than the clock at the call has err DeadlineExceeded.
C11_AsClaimed ==
    \A c \in Derived :
        (returned[c] /\ pastAtCall[c]) => err[c] = DeadlineExceeded

\* C11 amended: when the parent has no earlier deadline, the scope returned
\* by WithDeadline with a deadline not later than the clock at the call has
\* a non-nil err, which is DeadlineExceeded unless the scope was canceled
\* from its parent first (and is DeadlineExceeded while the parent is
\* live), and it has no timer.
C11_ImmediateExpiry ==
    \A c \in Derived :
        (returned[c] /\ pastAtCall[c] /\ kind[c] = "timer") =>
            /\ err[c] # NoErr
            /\ err[c] = DeadlineExceeded \/ cause[c].why = "propagated"
            /\ err[Owner(parent[c])] = NoErr => err[c] = DeadlineExceeded
            /\ ~timer[c]
            /\ tstate[c] = "none"

\* a scope derived from a live native parent with a past deadline: it was
\* registered, expired at once and was taken out again
C11_Witness ==
    \E c \in Derived :
        /\ returned[c] /\ pastAtCall[c] /\ kind[c] = "timer"
        /\ regIn[c] # NoCtx
        /\ err[regIn[c]] = NoErr
        /\ cause[c] = OwnDeadline(c)
        /\ err[c] = DeadlineExceeded

\* c was made by WithDeadline(p, d) under a parent with a deadline before d
Dominated(c) == kind[c] = "cancel" /\ asked[c] # NoTime

\* C12: a scope of the package whose parent has a deadline has a deadline
\* that is not later; a scope made by WithDeadline(p, t2) under a parent
\* with deadline t1 < t2 has deadline t1 and no timer, and once it is
\* returned it is canceled whenever its native parent is canceled (and
\* unlocked).
C12_DeadlineDominance ==
    \A c \in Derived :
        /\ (kind[c] \in {"cancel", "timer", "value"} /\ Deadline(parent[c]) # NoTime)
              => /\ Deadline(c) # NoTime
                 /\ Deadline(c) <= Deadline(parent[c])
        /\ Dominated(c) =>
              /\ Deadline(c) = Deadline(parent[c])
              /\ Deadline(c) # NoTime
              /\ Deadline(c) < asked[c]
              /\ ~timer[c] /\ tstate[c] = "none"
              /\ (returned[c] /\ Native(Owner(parent[c]))
                    /\ err[Owner(parent[c])] # NoErr
                    /\ mu[Owner(parent[c])] = Free)
                   => err[c] # NoErr

\* the timer of the parent fired at t1 and its cancel reached the scope
\* that had asked for the later deadline t2
C12_Witness ==
    \E c \in Derived :
        /\ Dominated(c)
        /\ returned[c]
        /\ kind[parent[c]] = "timer"
        /\ tstate[parent[c]] = "fired"
        /\ cause[parent[c]] = OwnDeadline(parent[c])
        /\ regIn[c] = parent[c]
        /\ cause[c] = Propagated(parent[c])
        /\ err[c] = DeadlineExceeded
        /\ now < asked[c]

\* the i-th scope on the path from c to the root (c is the 0-th)
RECURSIVE Up(_, _)
Up(c, i) ==
    IF i = 0 \/ c = NoCtx THEN c ELSE Up(parent[c], i - 1)

\* the distances at which a value scope with key k stands on the path
Hits(c, k) ==
    {i \in 0..ChainNodes :
        /\ Up(c, i) # NoCtx
        /\ kind[Up(c, i)] = "value"
        /\ key[Up(c, i)] = k}

\* the val of the nearest of them, or nil
NearestVal(c, k) ==
    IF Hits(c, k) = {} THEN NoVal
    ELSE val[Up(c, CHOOSE i \in Hits(c, k) : \A j \in Hits(c, k) : i <= j)]

\* C13: for every scope c and user key k, c.Value(k) is the val of the
\* nearest value scope with key k on the path from c to the root, nil when
\* there is none; and so was the result of the last lookup a caller made.
C13_ValueLookup ==
    /\ \A c \in Nodes : \A k \in 1..MaxLookupKey :
          kind[c] # "none" =>
             Value(c, k) = [c |-> NoCtx, v |-> NearestVal(c, k)]
    /\ got.c # NoCtx => got.r = [c |-> NoCtx, v |-> NearestVal(got.c, got.k)]

\* a caller looked up k in a cancellable scope derived from
\* WithValue(WithValue(s, k, v1), k, v2) with v1 # v2 and got v2
C13_Witness ==
    \E c \in Derived :
        /\ got.c = c
        /\ Native(c)
        /\ kind[parent[c]] = "value" /\ key[parent[c]] = got.k
        /\ kind[parent[parent[c]]] = "value" /\ key[parent[parent[c]]] = got.k
        /\ val[parent[c]] # val[parent[parent[c]]]
        /\ got.r.v = val[parent[c]]

\* the frames that act on a scope as their receiver
ActsOn(f, c) ==
    \/ f.fn \in {"cancel", "tcancel", "Done", "CancelFunc"} /\ f.c = c
    \/ f.fn = "propagateCancel" /\ f.q = c

\* C14: a value scope has the Deadline, the Done channel and the err of its
\* parent; it has no err, channel, children, lock or timer of its own, is
\* in no children set, and no cancel, Done or registration ever runs on it.
C14_ValueScopeDelegates ==
    \A c \in Derived :
        kind[c] = "value" =>
            /\ Deadline(c) = Deadline(parent[c])
            /\ DoneNow(c) = DoneNow(parent[c])
            /\ err[Owner(c)] = err[Owner(parent[c])]
            /\ err[c] = NoErr /\ done[c] = NoChan /\ children[c] = {}
            /\ mu[c] = Free /\ ~timer[c] /\ ncalls[c] = 0
            /\ \A x \in Nodes : c \notin children[x] /\ regIn[x] # c
            /\ \A t \in Tasks : \A i \in DOMAIN stack[t] : ~ActsOn(stack[t][i], c)

\* the parent of a value scope was canceled and the cancel reached a scope
\* that had been derived from the value scope
C14_Witness ==
    \E c \in Derived : \E x \in Derived :
        /\ kind[c] = "value"
        /\ Native(parent[c])
        /\ cause[parent[c]] = OwnCancel(parent[c])
        /\ parent[x] = c
        /\ regIn[x] = parent[c]
        /\ cause[x] = Propagated(parent[c])
        /\ IsClosed(DoneNow(c))

\* C15: Background and TODO have a nil err, a nil Done channel, no deadline
\* and nil for every key, whatever is derived from them and canceled below
\* them; they hold no children and no cancel, Done or registration runs on
\* them.
C15_RootsNeverCancelled ==
    \A r \in Roots :
        /\ kind[r] = "empty" /\ parent[r] = NoCtx
        /\ err[Owner(r)] = NoErr
        /\ DoneNow(r) = NoChan /\ done[r] = NoChan
        /\ Deadline(r) = NoTime
        /\ \A k \in Keys \cup {cancelCtxKey} : Value(r, k) = NotFound
        /\ got.c = r => got.r = NotFound
        /\ children[r] = {} /\ mu[r] = Free
        /\ \A t \in Tasks : \A i \in DOMAIN stack[t] : ~ActsOn(stack[t][i], r)

\* a scope derived from Background and one derived from TODO have been
\* canceled, one by its CancelFunc and one by its timer
C15_Witness ==
    \E a \in Derived : \E b \in Derived :
        /\ Native(a) /\ Native(b)
        /\ Owner(parent[a]) = background /\ Owner(parent[b]) = todo
        /\ err[a] # NoErr /\ err[b] # NoErr
        /\ {cause[a].why, cause[b].why} = {"cancel", "deadline"}

\* x is a proper descendant of a
RECURSIVE Below(_, _)
Below(x, a) ==
    /\ x \in Derived
    /\ parent[x] # NoCtx
    /\ \/ parent[x] = a
       \/ Below(parent[x], a)

IsCancelFrame(f) == f.fn \in {"cancel", "tcancel"}

\* the Done channel of x is closed after the step
ClosedNext(x) == done'[x] = closedchan \/ done'[x] \in closed'

\* C16: a canceled scope was canceled by its own CancelFunc or deadline, or
\* from a canceled proper ancestor; every cancel that is called from another
\* scope is called on a proper descendant of that scope; a step changes the err or closes the channel
\* of a scope of the package only as the cancel running on that scope; and a child leaves
\* the children set of a scope only when that scope is canceled itself or
\* when the child, being canceled, is removed alone.
C16_DownwardsOnly ==
    /\ [](\A x \in Derived :
            (Native(x) /\ err[x] # NoErr) =>
                \/ cause[x] \in {OwnCancel(x), OwnDeadline(x)}
                \/ /\ cause[x].why = "propagated"
                   /\ Below(x, cause[x].from)
                   /\ err[Owner(cause[x].from)] # NoErr)
    /\ [](\A t \in Tasks : \A i \in DOMAIN stack[t] :
            IsCancelFrame(stack[t][i]) =>
                \/ stack[t][i].org \in {OwnCancel(stack[t][i].c),
                                        OwnDeadline(stack[t][i].c)}
                \/ /\ stack[t][i].org.why = "propagated"
                   /\ Below(stack[t][i].c, stack[t][i].org.from))
    /\ [][\A x \in Nodes \ {n \in Nodes : kind[n] = "foreign"} :
            /\ (err'[x] # err[x] \/ (ClosedNext(x) /\ ~IsClosed(done[x])))
                  => /\ \E t \in Tasks :
                          /\ stack[t] # << >>
                          /\ IsCancelFrame(Top(stack[t]))
                          /\ Top(stack[t]).c = x
                     /\ err[x] = NoErr /\ err'[x] # NoErr /\ ClosedNext(x)
            /\ \A c \in children[x] \ children'[x] :
                  \/ err'[x] # NoErr
                  \/ /\ err[c] # NoErr
                     /\ children'[x] = children[x] \ {c}]_vars

\* of two scopes registered in the same parent one was canceled by its
\* CancelFunc and removed; the parent and the sibling are not canceled and
\* the sibling is still registered
C16_Witness ==
    \E a \in Derived : \E b \in Derived : \E q \in Derived :
        /\ a # b
        /\ Native(q) /\ regIn[a] = q /\ regIn[b] = q
        /\ cause[a] = OwnCancel(a) /\ cancelReturned[a]
        /\ err[q] = NoErr /\ err[b] = NoErr
        /\ ~IsClosed(done[q]) /\ ~IsClosed(done[b])
        /\ children[q] = {b}

\* t is in <-n.Done(), in the Done() call or in the receive
Waiting(t, n) ==
    /\ stack[t] # << >>
    /\ stack[t][1].fn = "wait"
    /\ stack[t][1].c = n

WaitsOnTerminal(t) ==
    \E n \in Derived : Waiting(t, n) /\ err[Owner(n)] # NoErr

\* C17: every caller waiting on the Done channel of a scope that is
\* terminal is eventually released; a wait that began on a terminal scope
\* got a closed channel from Done() without the slow path, so its receive
\* is enabled at once.
C17_WaitersReleased ==
    /\ \A t \in Procs : WaitsOnTerminal(t) ~> Idle(t)
    /\ [](\A t \in Procs : \A n \in Derived :
            (Waiting(t, n) /\ late[t]) =>
                /\ Len(stack[t]) = 1
                /\ IsClosed(stack[t][1].ret))

\* both callers are released from a wait on the same scope that began
\* before the scope was canceled by its timer
C17_Witness ==
    \E n \in Derived :
        /\ cause[n] = OwnDeadline(n)
        /\ \A t \in Procs :
              /\ At(t, "wait", "recv")
              /\ Waiting(t, n)
              /\ ~late[t]
              /\ IsClosed(Top(stack[t]).ret)
              /\ Top(stack[t]).ret # closedchan

MissingCancelError == "context: internal error: missing cancel error"

MisuseMsgs ==
    {"cannot create context from nil parent", "nil key",
     "key is not comparable", MissingCancelError}

\* t is about to run cancel with a nil error
NilErrCall(t) ==
    /\ stack[t] # << >>
    /\ IsCancelFrame(Top(stack[t]))
    /\ Top(stack[t]).pc = "lock"
    /\ Top(stack[t]).e = NoErr

\* no scope is made or returned, and err, done, children and timer of every
\* scope stay as they are
TreeUntouched ==
    UNCHANGED <<nctx, kind, parent, deadline, key, val, returned, err, done,
                nchan, closed, children, mu, timer, tstate, fireAt>>

\* C18: a derive call with a nil parent, WithValue with a nil or
\* non-comparable key, and cancel with a nil error each end in a panic of
\* the calling goroutine, in a step that makes and returns no scope and
\* leaves err, done, children and timer of every scope unchanged; and the
\* package raises no other panic.
C18_MisuseIsFatal ==
    /\ [](panics \subseteq MisuseMsgs)
    /\ [][/\ nmisuse' # nmisuse =>
               /\ (panics' \ {MissingCancelError}) # {}
               /\ stack' = stack
               /\ TreeUntouched
          /\ \A t \in Tasks :
               (NilErrCall(t) /\ stack'[t] # stack[t]) =>
                   /\ MissingCancelError \in panics'
                   /\ stack'[t] = << >>
                   /\ TreeUntouched
          /\ panics' # panics => TreeUntouched]_vars

\* all four panics have been raised; the cancel with a nil error came from
\* a foreign parent whose Done channel is closed while its Err() is nil
C18_Witness ==
    /\ panics = MisuseMsgs
    /\ \E c \in Derived :
          /\ Native(c) /\ kind[parent[c]] = "foreign"
          /\ IsClosed(done[parent[c]]) /\ err[parent[c]] = NoErr
          /\ err[c] = NoErr
          /\ \A t \in Tasks : stack[t] = << >>

\* the step takes c out of the children set of p
Unregisters(p, c) == c \in children[p] /\ c \notin children'[p]

\* the CancelFunc of c was invoked, the timer of c fired, or p is canceled
LeakEnds(p, c) ==
    \/ ncalls[c] > 0
    \/ tstate[c] = "fired"
    \/ err'[p] # NoErr

\* WithDeadline, still constructing c, found the deadline of c passed
PassedInConstruction(c) ==
    /\ kind[c] = "timer"
    /\ ~returned[c]
    /\ deadline[c] <= now

\* C19 as stated: a registered child leaves the children set of its parent
\* only after its CancelFunc was invoked, its timer fired or the parent was
\* canceled.
C19_AsClaimed ==
    [][\A q \in Derived : \A c \in Derived :
          Unregisters(q, c) => LeakEnds(q, c)]_vars

\* C19: a registered child leaves the children set of its parent only
\* after its CancelFunc was invoked, its timer fired, the parent was
\* canceled, or WithDeadline found its deadline already passed while
\* constructing it; and a child that was returned to the caller and has
\* seen none of the first three is still registered where propagateCancel
\* registered it.
C19_LeakedCancel ==
    /\ [][\A q \in Derived : \A c \in Derived :
            Unregisters(q, c) => LeakEnds(q, c) \/ PassedInConstruction(c)]_vars
    /\ [](\A c \in Derived :
            (/\ returned[c] /\ regIn[c] # NoCtx
             /\ ncalls[c] = 0 /\ tstate[c] # "fired"
             /\ err[regIn[c]] = NoErr
             /\ ~(kind[c] = "timer" /\ tstate[c] = "none"))
                => c \in children[regIn[c]])

\* a child was registered and removed again inside WithDeadline, with no
\* CancelFunc invoked, no timer and a live parent
C19_Witness ==
    \E c \in Derived :
        /\ kind[c] = "timer" /\ regIn[c] # NoCtx
        /\ c \notin children[regIn[c]]
        /\ ncalls[c] = 0 /\ tstate[c] = "none"
        /\ err[regIn[c]] = NoErr
        /\ cause[c] = OwnDeadline(c)

\* no step adds a child to the children set of a canceled scope
NoChildAdded ==
    \A q \in Derived :
        (Native(q) /\ err[q] # NoErr) => children'[q] \subseteq children[q]

\* C20 as stated: in every state a canceled scope has an empty children set,
\* and no child is added to the children set of a canceled scope.
C20_AsClaimed ==
    /\ [](\A q \in Derived :
            (Native(q) /\ err[q] # NoErr) => children[q] = {})
    /\ [][NoChildAdded]_vars

\* C20: in every state in which the lock of a canceled scope is not held
\* the scope has an empty children set, and no child is ever added to the
\* children set of a canceled scope.
C20_InvariantI1 ==
    /\ [](\A q \in Derived :
            (Native(q) /\ err[q] # NoErr /\ mu[q] = Free) => children[q] = {})
    /\ [][NoChildAdded]_vars

\* a scope was canceled with a registered child, which its cancel reached;
\* its lock is free and its children set empty, and a scope derived from it
\* afterwards has been returned without having been registered
C20_Witness ==
    \E q \in Derived : \E a \in Derived : \E b \in Derived :
        /\ Native(q) /\ err[q] # NoErr /\ mu[q] = Free
        /\ children[q] = {}
        /\ regIn[a] = q /\ cause[a] = Propagated(q)
        /\ Native(b) /\ parent[b] = q /\ returned[b]
        /\ regIn[b] = NoCtx /\ cause[b] = Propagated(q)

\* C21 as stated: in every state every entry of every children set has a
\* nil err.
C21_AsClaimed ==
    \A q \in Derived : \A c \in children[q] : err[c] = NoErr

\* C21: every entry of a children set has a nil err, except while a cancel
\* of that entry or of the scope that holds the set is in progress (the
\* entry has set its err and has not yet removed itself, or the scope is
\* canceling its children and has not yet cleared the set).
C21_InvariantI2 ==
    \A q \in Derived : \A c \in children[q] :
        err[c] # NoErr => InCancel(c) \/ InCancel(q)

\* a canceled child is still in the children set of its live parent, no
\* lock is held, and the child's own cancel is about to remove it
C21_Witness ==
    \E q \in Derived : \E c \in children[q] :
        /\ err[c] # NoErr /\ err[q] = NoErr
        /\ \A x \in Nodes : mu[x] = Free
        /\ ~InCancel(q)
        /\ \E t \in Tasks : /\ stack[t] # << >>
                             /\ Top(stack[t]).pc = "delete"
                             /\ Top(stack[t]).c = c
                             /\ Top(stack[t]).q = q

\* the channel a Done() call handed to frame f, from scope n
Handed(f, n) == f.ret # NoChan => f.ret = done[Owner(n)]

\* C22: every channel that a Done() call on a scope has handed to a caller
\* (to a waiting caller or to propagateCancel) is the channel the scope
\* stores; a stored channel is never replaced; a canceled scope stores a
\* channel; the shared closed channel is stored only by cancel, a fresh
\* channel of the scope's own otherwise.
C22_InvariantI3 ==
    /\ [](\A t \in Tasks : \A i \in DOMAIN stack[t] :
            /\ stack[t][i].fn = "wait" => Handed(stack[t][i], stack[t][i].c)
            /\ stack[t][i].fn = "propagateCancel"
                  => Handed(stack[t][i], stack[t][i].p)
            /\ (stack[t][i].fn = "wait" /\ i = Len(stack[t]))
                  => stack[t][i].ret # NoChan)
    /\ [](\A c \in Derived : Native(c) =>
            /\ err[c] # NoErr => done[c] # NoChan
            /\ done[c] = closedchan => err[c] # NoErr
            /\ \A x \in Derived :
                  (Native(x) /\ done[x] = done[c]
                     /\ done[c] \notin {NoChan, closedchan}) => x = c)
    /\ [][\A c \in Derived :
            /\ done[c] # NoChan => done'[c] = done[c]
            /\ (done[c] = NoChan /\ done'[c] # NoChan) =>
                  IF err'[c] # NoErr
                  THEN done'[c] = closedchan /\ err[c] = NoErr
                  ELSE done'[c] = nchan + 1 /\ nchan' = nchan + 1]_vars

\* both callers hold the same fresh channel of a scope, one from a Done()
\* call before the scope was canceled and one from a call after it
C22_Witness ==
    \E c \in Derived :
        /\ Native(c) /\ err[c] # NoErr
        /\ done[c] \notin {NoChan, closedchan}
        /\ \A t \in Procs :
              /\ At(t, "wait", "recv")
              /\ Top(stack[t]).c = c
              /\ Top(stack[t]).ret = done[c]
        /\ \E t \in Procs : late[t]
        /\ \E t \in Procs : ~late[t]

\* in the stack of t, frame i is a cancel that is in its loop over the
\* children and frame j is the cancel of one of the children
FanOut(t, i, j) ==
    /\ i \in DOMAIN stack[t] /\ j \in DOMAIN stack[t] /\ i < j
    /\ IsCancelFrame(stack[t][i]) /\ stack[t][i].pc = "unlock"
    /\ IsCancelFrame(stack[t][j])
    /\ stack[t][j].org = Propagated(stack[t][i].c)

\* C23 as stated: while a cancel invokes the cancel of a child, the
\* canceling task does not hold the lock of the parent.
C23_AsClaimed ==
    \A t \in Tasks : \A i \in DOMAIN stack[t] : \A j \in DOMAIN stack[t] :
        FanOut(t, i, j) => mu[stack[t][i].c] # t

\* C23: while a cancel invokes the cancel of a child, the canceling task
\* holds the lock of the parent; a task holds only locks of scopes whose
\* loop (or whose registration of a child) it is in; and a cancel that has
\* left its loop, standing before removeChild or the timer stop, does not
\* hold the lock of its scope.
C23_LockHeldInFanOut ==
    /\ \A t \in Tasks : \A i \in DOMAIN stack[t] : \A j \in DOMAIN stack[t] :
          FanOut(t, i, j) => mu[stack[t][i].c] = t
    /\ \A t \in Tasks : \A x \in Derived :
          mu[x] = t =>
             \E i \in DOMAIN stack[t] :
                /\ stack[t][i].pc = "unlock"
                /\ \/ IsCancelFrame(stack[t][i]) /\ stack[t][i].c = x
                   \/ stack[t][i].fn = "propagateCancel" /\ stack[t][i].q = x
    /\ \A t \in Tasks : \A i \in DOMAIN stack[t] :
          (IsCancelFrame(stack[t][i]) /\ stack[t][i].pc \in {"delete", "stop"})
             => mu[stack[t][i].c] # t

\* a task that cancels a scope stands at the cancel of a grandchild and
\* holds the locks of the scope and of the child between them
C23_Witness ==
    \E t \in Procs :
        /\ Len(stack[t]) >= 4
        /\ FanOut(t, 2, 3) /\ FanOut(t, 3, 4)
        /\ stack[t][4].pc = "lock"
        /\ mu[stack[t][2].c] = t /\ mu[stack[t][3].c] = t
        /\ mu[stack[t][4].c] = Free

\* the scope whose lock the next step of t takes, if it takes one
Wants(t) ==
    IF stack[t] = << >> THEN NoCtx
    ELSE LET f == Top(stack[t]) IN
         CASE f.fn = "Done" /\ f.pc = "slow" -> f.c
           [] f.fn = "Err" /\ f.pc = "lock" -> f.c
           [] f.fn = "propagateCancel" /\ f.pc = "err" -> Owner(f.p)
           [] f.fn = "propagateCancel" /\ f.pc = "lock" -> f.q
           [] IsCancelFrame(f) /\ f.pc = "lock" /\ f.e # NoErr -> f.c
           [] IsCancelFrame(f) /\ f.pc = "delete" -> f.q
           [] f.fn = "tcancel" /\ f.pc = "stop" -> f.c
           [] f.fn = "WithDeadline" /\ f.pc = "timer" -> f.c
           [] OTHER -> NoCtx

\* the task that holds the lock t is waiting for, or t itself when t is
\* not waiting for a lock another holds
Blocker(t) ==
    IF Wants(t) # NoCtx /\ mu[Wants(t)] # Free THEN mu[Wants(t)] ELSE t

\* the task at the end of the chain of k blockers from t
RECURSIVE BlockerAt(_, _)
BlockerAt(t, k) == IF k = 0 THEN t ELSE Blocker(BlockerAt(t, k - 1))

Blocked(t) == Blocker(t) # t

\* C24: no task waits for a lock it holds itself, no tasks wait for each
\* other's locks in a cycle (the chain of blockers from a waiting task ends
\* at a task that is not waiting for a lock), and under fair scheduling
\* every call of a caller and every timer callback runs to completion.
C24_DeadlockFreedom ==
    /\ [](\A t \in Tasks :
            /\ Wants(t) # NoCtx => mu[Wants(t)] # t
            /\ Blocked(t) => ~Blocked(BlockerAt(t, Cardinality(Tasks))))
    /\ \A t \in Procs : ~Idle(t) ~> Idle(t)
    /\ []<>(\A c \in 1..MaxNodes : Idle(TimerTask(c)))

\* both callers wait for the lock of a scope that a timer callback holds
\* while it cancels the child of the scope
C24_Witness ==
    \E c \in Derived :
        /\ \A t \in Procs : Blocked(t) /\ Blocker(t) = TimerTask(c)
        /\ mu[c] = TimerTask(c)
        /\ ~Blocked(TimerTask(c))
        /\ children[c] # {}

\* C25: in every reachable state a timed scope that holds a timer has a nil
\* err.
C25_AsClaimed ==
    \A c \in Derived : (kind[c] = "timer" /\ timer[c]) => err[c] = NoErr

\* C26: a cancel of a timed scope stops the timer first, then runs the base
\* cancel (err set, done closed, children canceled), and only then detaches
\* the scope from its parent: the step that sets err finds the timer
\* cleared, the step that clears the timer finds err nil, and the step that
\* deletes the scope from its parent's children finds err set and the timer
\* cleared.
C26_AsClaimed ==
    [][\A t \in Tasks :
          (/\ stack[t] # << >>
           /\ Top(stack[t]).fn = "tcancel"
           /\ stack'[t] # stack[t]) =>
             LET f == Top(stack[t]) IN
             /\ (f.pc = "lock" /\ err'[f.c] # err[f.c]) => ~timer[f.c]
             /\ (f.pc = "stop" /\ timer[f.c]) => err[f.c] = NoErr
             /\ f.pc = "delete" => (err[f.c] # NoErr /\ ~timer[f.c])]_vars

\* the timer callback of c runs on a scope that something else has canceled
LateCallback(c) ==
    /\ stack[TimerTask(c)] # << >>
    /\ err[c] # NoErr
    /\ cause[c] # OwnDeadline(c)

\* C27: a step of the timer callback of a timed scope that another cancel
\* (its CancelFunc or a cancel from its parent) has already made terminal
\* changes no scope's err, no scope's done channel, closes no channel and
\* leaves the children of the scope as they are.
C27_LateCallbackNoOp ==
    [][\A c \in Derived :
          (LateCallback(c) /\ stack'[TimerTask(c)] # stack[TimerTask(c)]) =>
             /\ UNCHANGED <<err, done, closed>>
             /\ children'[c] = children[c]]_vars

\* the callback of a fired timer has been through the locked part of cancel
\* on a scope that its CancelFunc had canceled, and is about to stop the
\* timer
C27_Witness ==
    \E c \in Derived :
        /\ tstate[c] = "fired"
        /\ err[c] = Canceled
        /\ At(TimerTask(c), "tcancel", "stop")

\* some task is in the call of WithDeadline that derives c
InWithDeadline(c) ==
    \E t \in Tasks : \E i \in DOMAIN stack[t] :
        stack[t][i].fn = "WithDeadline" /\ stack[t][i].c = c

\* C28: while no WithDeadline and no cancel call on a timed scope is in
\* progress, a scope with a non-nil err holds no timer and its timer is not
\* armed; so a WithDeadline with a future deadline under a parent that is
\* canceled before or during the derivation leaves no registered timer.
C28_NoTimerAtRest ==
    \A c \in Derived :
        (/\ kind[c] = "timer"
         /\ err[c] # NoErr
         /\ ~InWithDeadline(c)
         /\ ~InCancel(c)) => (~timer[c] /\ tstate[c] # "armed")

\* a timed scope with a deadline ahead was registered with its parent, the
\* parent's cancel reached it before WithDeadline came to its timer, and
\* WithDeadline has returned: no timer was ever registered
C28_Witness ==
    \E c \in Derived :
        /\ kind[c] = "timer" /\ returned[c] /\ ~pastAtCall[c]
        /\ parent[c] \in Derived /\ regIn[c] = parent[c]
        /\ err[c] = Canceled /\ cause[c] = Propagated(parent[c])
        /\ ~InWithDeadline(c) /\ ~InCancel(c)
        /\ now < deadline[c]
        /\ tstate[c] = "none" /\ ~timer[c]

\* C29: a scope made by WithDeadline(parent, when) is a timed scope with
\* deadline `when` exactly when the parent has no deadline or the parent's
\* deadline is not strictly earlier than `when` (an equal deadline gives a
\* timed scope); otherwise it is a plain cancelable scope that never holds
\* a timer.
C29_TimedScopeExactlyWhen ==
    \A c \in Derived :
        asked[c] # NoTime =>
            /\ kind[c] \in {"timer", "cancel"}
            /\ kind[c] = "timer" <=>
                  (\/ Deadline(parent[c]) = NoTime
                   \/ ~(Deadline(parent[c]) < asked[c]))
            /\ kind[c] = "timer" => deadline[c] = asked[c]
            /\ kind[c] = "cancel" => (~timer[c] /\ tstate[c] = "none")

\* WithDeadline under a parent with the same deadline has returned a timed
\* scope with a timer of its own
C29_Witness ==
    \E c \in Derived :
        /\ asked[c] # NoTime /\ returned[c]
        /\ Deadline(parent[c]) = asked[c]
        /\ kind[c] = "timer"
        /\ timer[c] /\ tstate[c] = "armed"

\* a step of a caller inside a CancelFunc of a scope that WithDeadline made
\* for a deadline not later than the clock at the call
PastCancelStep(t, c) ==
    /\ Cancelling(t, c)
    /\ pastAtCall[c]
    /\ stack'[t] # stack[t]

\* C30 as stated: whatever the parent, no step of a CancelFunc of a scope
\* made by WithDeadline with a deadline not later than now changes any
\* scope's err, done channel, children set or timer.
C30_AsClaimed ==
    [][\A t \in Procs : \A c \in Derived :
          PastCancelStep(t, c) =>
             UNCHANGED <<err, done, closed, children, timer, tstate>>]_vars

\* C30: when the parent has no deadline earlier than `when` (the scope is a
\* timed scope), no step of any call of the CancelFunc returned by
\* WithDeadline with `when` not later than now changes any scope's err, done
\* channel, children set or timer; the scope's err was set before the
\* CancelFunc could be called.
C30_PastCancelNoOp ==
    /\ [][\A t \in Procs : \A c \in Derived :
            (PastCancelStep(t, c) /\ kind[c] = "timer") =>
               UNCHANGED <<err, done, closed, children, timer, tstate>>]_vars
    /\ [](\A t \in Procs : \A c \in Derived :
            (Cancelling(t, c) /\ pastAtCall[c] /\ kind[c] = "timer") =>
               (err[c] # NoErr /\ ~cancelRfp[c]))

\* the CancelFunc of a timed scope that expired in its construction under a
\* live parent has returned twice
C30_Witness ==
    \E c \in Derived :
        /\ kind[c] = "timer" /\ pastAtCall[c]
        /\ ncalls[c] = MaxCalls /\ cancelReturned[c]
        /\ \A t \in Procs : Idle(t)
        /\ err[c] = DeadlineExceeded
        /\ err[Owner(parent[c])] = NoErr

\* c was derived by WithCancel or WithDeadline from a parent whose Done() is
\* nil: a root, or value scopes over a root
UnderRoot(c) ==
    /\ kind[c] \in {"cancel", "timer"}
    /\ kind[Owner(parent[c])] = "empty"

\* C31: a scope derived by WithCancel or WithDeadline from a parent whose
\* Done() is nil is in no children set, was never put in one, has no watcher
\* goroutine and no propagateCancel step to take, and its err, if set, was
\* set by its own CancelFunc or its own deadline.
C31_NeverCancellableParent ==
    \A c \in Derived :
        UnderRoot(c) =>
            /\ regIn[c] = NoCtx
            /\ \A q \in Nodes : c \notin children[q]
            /\ stack[WatchTask(c)] = << >>
            /\ \A t \in Tasks : \A i \in DOMAIN stack[t] :
                  ~(stack[t][i].fn = "propagateCancel" /\ stack[t][i].c = c)
            /\ err[c] # NoErr => cause[c] \in {OwnCancel(c), OwnDeadline(c)}
            /\ (err[c] # NoErr /\ cause[c] = OwnCancel(c)) => ncalls[c] > 0

\* a cancelable scope over a value scope over Background was canceled by
\* its CancelFunc
C31_Witness ==
    \E c \in Derived :
        /\ UnderRoot(c) /\ kind[parent[c]] = "value"
        /\ returned[c] /\ cancelReturned[c]
        /\ err[c] = Canceled /\ cause[c] = OwnCancel(c)

\* C32: a scope that WithCancel or WithDeadline derived from a parent whose
\* Done channel was already closed is never put in a children set and gets
\* no watcher goroutine, and when the call returns its err is non-nil and
\* equal to the parent's err.
C32_TerminalParent ==
    \A c \in Derived :
        (kind[c] \in {"cancel", "timer"} /\ closedAtCall[c]) =>
            /\ regIn[c] = NoCtx
            /\ \A q \in Nodes : c \notin children[q]
            /\ stack[WatchTask(c)] = << >>
            /\ returned[c] =>
                  /\ err[c] # NoErr
                  /\ err[c] = err[Owner(parent[c])]
                  /\ cause[c] = Propagated(Owner(parent[c]))

\* WithDeadline under a parent whose timer had fired has returned a scope
\* that got the parent's err, DeadlineExceeded, from the parent
C32_Witness ==
    \E c \in Derived :
        /\ kind[c] = "timer" /\ closedAtCall[c] /\ returned[c]
        /\ kind[parent[c]] = "timer"
        /\ err[c] = DeadlineExceeded
        /\ cause[c] = Propagated(parent[c])
        /\ cause[parent[c]] = OwnDeadline(parent[c])
        /\ tstate[parent[c]] = "fired"

\* the nearest cancelable or timed scope from n upwards, looking through
\* value scopes and foreign Contexts (which pass Value on to their parent)
RECURSIVE NearestCancel(_)
NearestCancel(n) ==
    CASE kind[n] \in {"value", "foreign"} -> NearestCancel(parent[n])
      [] kind[n] \in {"cancel", "timer"} -> n
      [] OTHER -> NoCtx

\* the nearest cancelable or timed ancestor of c, if the channel it holds is
\* the one Done() of the parent of c returns; NoCtx when there is none
FastParent(c) ==
    LET q == NearestCancel(parent[c]) IN
    IF q # NoCtx /\ done[q] # NoChan /\ done[q] = DoneNow(parent[c])
    THEN q ELSE NoCtx

InNoChildren(c) == \A q \in Nodes : c \notin children[q]

\* C33: a cancelable or timed scope is only ever put into the children set
\* of the *cancelCtx that parentCancelCtx finds for its parent; a watcher
\* goroutine exists only for a scope for which none is found, and such a
\* scope is in no children set; and once the derive call has returned, with
\* the scope and its parent (whose Done() is not nil) both live, the scope
\* is in that children set and has no watcher when a *cancelCtx is found,
\* and has a running watcher and is in no children set when none is found.
C33_FastPathSelection ==
    \A c \in Derived :
        Native(c) =>
            /\ \A q \in Nodes : c \in children[q] => q = FastParent(c)
            /\ regIn[c] # NoCtx => regIn[c] = FastParent(c)
            /\ stack[WatchTask(c)] # << >> =>
                  (FastParent(c) = NoCtx /\ regIn[c] = NoCtx /\ InNoChildren(c))
            /\ (/\ returned[c] /\ err[c] = NoErr
                /\ kind[Owner(parent[c])] # "empty"
                /\ err[Owner(parent[c])] = NoErr) =>
                  IF FastParent(c) # NoCtx
                  THEN /\ c \in children[FastParent(c)]
                       /\ stack[WatchTask(c)] = << >>
                  ELSE /\ stack[WatchTask(c)] # << >>
                       /\ InNoChildren(c)

\* a scope is watched and not registered, because its foreign parent stands
\* over a live cancelable scope whose channel is not the parent's
C33_Witness ==
    \E c \in Derived :
        /\ Native(c) /\ returned[c] /\ err[c] = NoErr
        /\ kind[parent[c]] = "foreign"
        /\ Native(parent[parent[c]])
        /\ NearestCancel(parent[c]) = parent[parent[c]]
        /\ err[parent[parent[c]]] = NoErr
        /\ err[parent[c]] = NoErr
        /\ stack[WatchTask(c)] # << >>
        /\ InNoChildren(c)

\* c was derived by WithCancel or WithDeadline from a foreign Context (or
\* from value scopes over one)
SlowChild(c) == Native(c) /\ kind[Owner(parent[c])] = "foreign"

ParentClosed(c) == IsClosed(DoneNow(parent[c]))

\* C34: once the Done channel of the foreign parent of a watched scope is
\* closed, the scope eventually has a non-nil err; an err that came from the
\* parent is the parent's err, set after the parent's channel was closed;
\* and an err that is set is never changed (a watcher that finds the scope
\* already terminal leaves its err as it is).
C34_SlowPathPropagation ==
    /\ \A c \in 1..MaxNodes :
          (SlowChild(c) /\ stack[WatchTask(c)] # << >> /\ ParentClosed(c))
             ~> (err[c] # NoErr)
    /\ [](\A c \in Derived :
            (SlowChild(c) /\ cause[c].why = "propagated") =>
               /\ ParentClosed(c)
               /\ err[c] = err[Owner(parent[c])]
               /\ cause[c] = Propagated(Owner(parent[c])))
    /\ [][\A c \in Derived :
            (SlowChild(c) /\ err[c] # NoErr) => err'[c] = err[c]]_vars

\* the watcher of a scope that was returned live has canceled it with the
\* DeadlineExceeded of its foreign parent and has ended
C34_Witness ==
    \E c \in Derived :
        /\ SlowChild(c) /\ returned[c] /\ ~closedAtCall[c]
        /\ ncalls[c] = 0
        /\ err[Owner(parent[c])] = DeadlineExceeded
        /\ err[c] = DeadlineExceeded
        /\ cause[c] = Propagated(Owner(parent[c]))
        /\ stack[WatchTask(c)] = << >>

\* C35: under fair scheduling a watcher goroutine ends once the Done channel
\* of the parent is closed or the scope it watches is canceled (its Done
\* channel is closed with its err set), whichever comes first; and a watcher
\* is only ever running for a scope with a foreign parent.
C35_WatchersEnd ==
    /\ \A c \in 1..MaxNodes :
          (/\ stack[WatchTask(c)] # << >>
           /\ (ParentClosed(c) \/ err[c] # NoErr))
             ~> (stack[WatchTask(c)] = << >>)
    /\ [](\A c \in Derived : stack[WatchTask(c)] # << >> => SlowChild(c))

\* the CancelFunc of a scope under a foreign parent that is still live has
\* returned, and the watcher of the scope has ended
C35_Witness ==
    \E c \in Derived :
        /\ SlowChild(c) /\ returned[c] /\ ~closedAtCall[c]
        /\ cancelReturned[c]
        /\ err[c] = Canceled /\ cause[c] = OwnCancel(c)
        /\ err[Owner(parent[c])] = NoErr
        /\ stack[WatchTask(c)] = << >>

\* the scope from which the cancel that made c terminal was propagated
PropagatedFrom(c) == cause[c].from

\* C36: a scope made terminal by propagation got its err from a scope whose
\* err was set and whose Done channel was closed before (in the state in
\* which the child's err is set, and so ever after), and the err is that
\* scope's err; for a scope registered in a children set, that scope is the
\* one in whose children set it was registered.
C36_TopDownOrder ==
    /\ [][\A c \in Derived :
            (/\ Native(c)
             /\ err[c] = NoErr /\ err'[c] # NoErr
             /\ cause'[c].why = "propagated") =>
               LET q == PropagatedFrom(c)' IN
               /\ err[q] # NoErr
               /\ IsClosed(done[q])
               /\ err'[c] = err[q]
               /\ regIn[c] # NoCtx => regIn[c] = q]_vars
    /\ [](\A c \in Derived :
            (Native(c) /\ err[c] # NoErr /\ cause[c].why = "propagated") =>
               /\ err[PropagatedFrom(c)] # NoErr
               /\ IsClosed(done[PropagatedFrom(c)])
               /\ regIn[c] # NoCtx => PropagatedFrom(c) = regIn[c])

\* the cancel of a scope is in its loop over the children: the grandchild
\* registered below has just been made terminal, both its parent and its
\* grandparent having been made terminal before it
C36_Witness ==
    \E a \in Derived : \E b \in Derived : \E c \in Derived :
        /\ regIn[b] = a /\ regIn[c] = b
        /\ cause[a] = OwnCancel(a)
        /\ cause[b] = Propagated(a)
        /\ cause[c] = Propagated(b)
        /\ err[c] # NoErr
        /\ mu[a] # Free /\ mu[b] = mu[a]

\* C37: over trees of root, value, cancelable and timed scopes every call of
\* cancel, whoever makes it (a CancelFunc, a timer callback, the loop over
\* the children, propagateCancel with parent.Err() or p.err), passes a
\* non-nil error, and the panic "missing cancel error" is never raised.
C37_NilErrUnreachable ==
    /\ \A t \in Tasks : \A i \in DOMAIN stack[t] :
          IsCancelFrame(stack[t][i]) => stack[t][i].e # NoErr
    /\ MissingCancelError \notin panics
    /\ \A c \in Derived : kind[c] # "foreign"

\* propagateCancel, holding the lock of a parent it found canceled, is
\* about to cancel the child with the parent's err, DeadlineExceeded, while
\* the timer callback of the parent is still in its cancel
C37_Witness ==
    \E t \in Procs : \E q \in Derived :
        /\ Len(stack[t]) >= 2
        /\ IsCancelFrame(Top(stack[t]))
        /\ Top(stack[t]).pc = "lock"
        /\ Top(stack[t]).org = Propagated(q)
        /\ Top(stack[t]).e = DeadlineExceeded
        /\ stack[t][Len(stack[t]) - 1].fn = "propagateCancel"
        /\ stack[t][Len(stack[t]) - 1].pc = "unlock"
        /\ mu[q] = t
        /\ stack[TimerTask(q)] # << >>
        /\ panics = {}

\* the children sets c is a member of
Holders(c) == {q \in Nodes : c \in children[q]}

\* C38: every member of a children set is a cancelable or timed scope; a
\* scope is in at most one children set, that of its nearest cancelable or
\* timed ancestor (its parent's, through value scopes only), where
\* parentCancelCtx finds it; only cancelable and timed scopes have children;
\* and a scope with children holds a Done channel that was made, not nil and
\* not the shared closed channel.
C38_RegistrationShape ==
    /\ \A c \in Nodes :
          /\ Cardinality(Holders(c)) <= 1
          /\ \A q \in Holders(c) :
                /\ Native(c) /\ Native(q)
                /\ q = Owner(parent[c])
                /\ q = NearestCancel(parent[c])
                /\ q = regIn[c]
                /\ q = parentCancelCtx(parent[c], DoneNow(parent[c]))
    /\ \A q \in Nodes :
          children[q] # {} =>
             /\ Native(q)
             /\ done[q] \notin {NoChan, closedchan}

\* a scope derived from a value scope over a cancelable scope is registered
\* with the cancelable scope, which holds a channel of its own
C38_Witness ==
    \E q \in Derived : \E a \in Derived :
        /\ a \in children[q] /\ returned[a]
        /\ kind[parent[a]] = "value" /\ parent[parent[a]] = q
        /\ done[q] \notin {NoChan, closedchan}

====
